---- MODULE Spec2Model ----
(***************************************************************************)
(* ForensicFileAnalyzer: the integrity-validation core.                    *)
(*                                                                         *)
(* A batch of inventory rows (open string-keyed dictionaries) is built by  *)
(* the traversal stage, possibly altered by the caller, optionally given   *)
(* digests by the hash stage and annotated by the signature stage, and     *)
(* then handed to validate_inventory_rows, which returns an ordered list   *)
(* of Issues.  The signature stage reads the type of a file from its       *)
(* content where python-magic is installed and preferred, and from its     *)
(* name otherwise; both installations are behaviours of the model.         *)
(*                                                                         *)
(* Python values are tagged records; a key that is not in a dictionary is  *)
(* the value ABSENT.  Finite floats are kept in tenths (PyFloat(-5) is     *)
(* -0.5).  The detail texts of the source are Korean; the model keeps them *)
(* as the same text with every non-ASCII character written \uXXXX.         *)
(*                                                                         *)
(* A batch that carries digests is handed to sample_verify_hashes, which   *)
(* draws a sample of it, recomputes the digests and returns its own list   *)
(* of Issues; summarize_issues counts a list by severity and by code.      *)
(*                                                                         *)
(* Signing is the signature stage alone over an inventory of paths.        *)
(* Command is cmd_validate as a whole: the traversal of a directory, the   *)
(* optional hash and signature stages, both validators, the report and     *)
(* the summary.  The directory held, when it was scanned, the entries its  *)
(* listing names and no others (no exclude pattern is given); the          *)
(* validators look at the filesystem as it is now.                         *)
(***************************************************************************)
EXTENDS Integers, Sequences, FiniteSets, TLC

VARIABLES rows, altered, cfg, pc, issues, origin, outcome,
          hcfg, sample, verified, first, summary, tree, cmd, use_magic

vars == <<rows, altered, cfg, pc, issues, origin, outcome,
          hcfg, sample, verified, first, summary, tree, cmd, use_magic>>

(***************************************************************************)
(* Bounds of the model.                                                    *)
(***************************************************************************)
\* longest batch
MaxRows == 4
\* longest batch that holds rows the caller has altered
ShortRows == 1
\* integers whose decimal text int() and float() are asked to parse
MaxParse == 120
\* most entries of the scanned directory
MaxTree == 5
\* longest batch handed to the signature stage alone
MaxSigned == 2

(***************************************************************************)
(* Python values.                                                          *)
(***************************************************************************)
ABSENT == [t |-> "absent"]
PyNone == [t |-> "none"]
PyStr(s) == [t |-> "str", s |-> s]
PyInt(n) == [t |-> "int", n |-> n]
PyFloat(x) == [t |-> "float", tenths |-> x]
PyNaN == [t |-> "nan"]
PyInf == [t |-> "inf", neg |-> FALSE]
PyNegInf == [t |-> "inf", neg |-> TRUE]
PyBool(b) == [t |-> "bool", b |-> b]
\* the list [1]: a value that is neither text nor a number
PyList == [t |-> "list"]

Abs(x) == IF x < 0 THEN -x ELSE x

\* repr of a finite float kept in tenths: -5 -> "-0.5", 500 -> "50.0"
FloatStr(x) ==
    (IF x < 0 THEN "-" ELSE "") \o ToString(Abs(x) \div 10) \o "."
        \o ToString(Abs(x) % 10)

\* str(v)
str(v) ==
    CASE v.t = "none" -> "None"
      [] v.t = "str" -> v.s
      [] v.t = "int" -> ToString(v.n)
      [] v.t = "float" -> FloatStr(v.tenths)
      [] v.t = "nan" -> "nan"
      [] v.t = "inf" -> (IF v.neg THEN "-inf" ELSE "inf")
      [] v.t = "bool" -> (IF v.b THEN "True" ELSE "False")
      [] v.t = "list" -> "[1]"

\* r.get(f, default)
get(r, f, default) == IF r[f] = ABSENT THEN default ELSE r[f]

\* is_missing written as a truth test: not r.get(f)
is_missing_falsy(r, f) ==
    \/ r[f] = ABSENT \/ r[f] = PyNone \/ r[f] = PyStr("")
    \/ r[f] = PyInt(0) \/ r[f] = PyFloat(0) \/ r[f] = PyBool(FALSE)

\* f not in r or r.get(f) in (None, "")
is_missing(r, f) == r[f] = ABSENT \/ r[f] = PyNone \/ r[f] = PyStr("")

\* decimal integer texts int() and float() accept
IsIntText(s) == \E n \in (-MaxParse)..MaxParse : ToString(n) = s
IntOfText(s) == CHOOSE n \in (-MaxParse)..MaxParse : ToString(n) = s
\* decimal texts with a fraction that float() accepts
IsFloatText(s) == \E x \in (-MaxParse)..MaxParse : FloatStr(x) = s
FloatOfText(s) == CHOOSE x \in (-MaxParse)..MaxParse : FloatStr(x) = s

\* int(x) of a finite float: truncation toward zero
Trunc(x) == IF x < 0 THEN -((-x) \div 10) ELSE x \div 10

\* _to_int_safely(v): an int, None, or the exception that escapes
_to_int_safely(v) ==
    CASE v.t = "int" -> [r |-> "int", n |-> v.n]
      [] v.t = "bool" -> [r |-> "int", n |-> IF v.b THEN 1 ELSE 0]
      [] v.t = "float" -> [r |-> "int", n |-> Trunc(v.tenths)]
      [] v.t = "str" -> (IF IsIntText(v.s)
                            THEN [r |-> "int", n |-> IntOfText(v.s)]
                            ELSE [r |-> "none"])
      [] v.t = "nan" -> [r |-> "none"]
      [] v.t = "inf" -> [r |-> "OverflowError"]
      [] OTHER -> [r |-> "none"]

\* _to_float_safely(v): a float (finite, nan or infinite) or None
_to_float_safely(v) ==
    CASE v.t = "int" -> PyFloat(10 * v.n)
      [] v.t = "bool" -> PyFloat(IF v.b THEN 10 ELSE 0)
      [] v.t \in {"float", "nan", "inf"} -> v
      [] v.t = "str" ->
            (IF IsIntText(v.s) THEN PyFloat(10 * IntOfText(v.s))
             ELSE IF IsFloatText(v.s) THEN PyFloat(FloatOfText(v.s))
             ELSE IF v.s = "nan" THEN PyNaN
             ELSE IF v.s = "inf" THEN PyInf
             ELSE IF v.s = "-inf" THEN PyNegInf
             ELSE PyNone)
      [] OTHER -> PyNone

\* float_lt written fv <= epoch_min
float_le(fv, m) == IF fv.t = "inf" THEN fv.neg ELSE fv.tenths <= m.tenths

\* fv < epoch_min for a float fv that is not nan; epoch_min is finite
float_lt(fv, m) == IF fv.t = "inf" THEN fv.neg ELSE fv.tenths < m.tenths

(***************************************************************************)
(* The filesystem.  The traversal saw it at scan time; the validator and   *)
(* the signature stage re-observe it live.                                 *)
(***************************************************************************)
PathA == "/e/a.txt"
PathB == "/e/b.bin"
PathGone == "/e/gone.txt"
PathDead == "/e/dead.lnk"
PathLink == "/e/link.txt"
\* files whose names and contents the signature stage tells apart
PathPhoto == "/e/photo.JPEG"
PathJpe == "/e/old.jpe"
PathPage == "/e/page.htm"
PathScan == "/e/scan.TIF"
PathReadme == "/e/README"
PathEmpty == "/e/empty.dat"
PathBlank == "/e/blank"
\* a regular file that its reader has no permission to open
PathLocked == "/e/locked.txt"
\* a path text with an embedded NUL character
PathNul == "/e/x\\x00y"

\* st_size of the regular files the traversal found, as it saw them
ScannedSize(p) ==
    CASE p = PathA -> 50
      [] p = PathB -> 100
      [] p = PathGone -> 10

\* the live directory entry; a path without an entry does not exist.
\* a.txt is as it was scanned; b.bin has been cut to 50 bytes since and its
\* content is a PDF document; gone.txt has been deleted since.  content is
\* the bytes of the file, written as a Python bytes literal is; mime and
\* description are what libmagic (5.44) names that content
DirEntry(p) ==
    CASE p = PathA ->
            [kind |-> "file", size |-> 50,
             content |-> "xxxxxxxxxxxxxxxxxxxxxxxxxxxxxxxxxxxxxxxxxxxxxxxxxx",
             mime |-> "text/plain",
             description |-> "ASCII text, with no line terminators"]
      [] p = PathB ->
            [kind |-> "file", size |-> 50,
             content |-> "%PDF-1.4\\nxxxxxxxxxxxxxxxxxxxxxxxxxxxxxxxxxxxxxxxxx",
             mime |-> "application/pdf",
             description |-> "PDF document, version 1.4"]
      [] p = PathDead -> [kind |-> "symlink", target |-> "nowhere"]
      [] p = PathLink -> [kind |-> "symlink", target |-> PathA]
      [] p \in {PathPhoto, PathJpe} ->
            [kind |-> "file", size |-> 4,
             content |-> "\\xff\\xd8\\xff\\xe0",
             mime |-> "image/jpeg",
             description |-> "JPEG image data"]
      [] p = PathPage ->
            [kind |-> "file", size |-> 13,
             content |-> "<html></html>",
             mime |-> "text/html",
             description |->
                "HTML document, ASCII text, with no line terminators"]
      [] p = PathScan ->
            [kind |-> "file", size |-> 8,
             content |-> "II*\\x00\\x08\\x00\\x00\\x00",
             mime |-> "image/tiff",
             description |->
                "TIFF image data, little-endian, direntries=0"]
      [] p = PathReadme ->
            [kind |-> "file", size |-> 6, content |-> "hello\\n",
             mime |-> "text/plain", description |-> "ASCII text"]
      [] p \in {PathEmpty, PathBlank} ->
            [kind |-> "file", size |-> 0, content |-> "",
             mime |-> "inode/x-empty", description |-> "empty"]
      [] p = PathLocked ->
            [kind |-> "file", size |-> 5, content |-> "lock\\n",
             mime |-> "text/plain", description |-> "ASCII text"]
      [] OTHER -> [kind |-> "none"]

\* the files that exist and cannot be opened for reading
Unreadable == {PathLocked}

\* the path that a call which follows links (Path.stat, Path.open,
\* DirEntry.is_file(follow_symlinks=True)) comes to
followed(p) == IF DirEntry(p).kind = "symlink" THEN DirEntry(p).target ELSE p

\* os.lstat(p): the entry itself is examined, a link is not followed
os_lstat(p) ==
    IF p = PathNul THEN [exc |-> "ValueError"]
    ELSE IF DirEntry(p).kind = "file"
        THEN [exc |-> "", st_size |-> DirEntry(p).size]
    ELSE IF DirEntry(p).kind = "symlink"
        THEN [exc |-> "", st_size |-> Len(DirEntry(p).target)]
    ELSE [exc |-> "OSError"]

(***************************************************************************)
(* Issues.                                                                 *)
(***************************************************************************)
Issue(path, code, severity, detail, field, value) ==
    [path |-> path, code |-> code, severity |-> severity,
     detail |-> detail, field |-> field, value |-> value]

\* an issue together with the position of the row it was raised for
At(i, iss) == [iss |-> iss, row |-> i]

RECURSIVE Flatten(_)
Flatten(ss) == IF ss = << >> THEN << >> ELSE Head(ss) \o Flatten(Tail(ss))

\* f(s[1]), f(s[2]), ...
Map(s, f(_)) == [k \in 1..Len(s) |-> f(s[k])]

row_path(r) == str(get(r, "path", PyStr("")))

\* validate.py 56-61: required fields of row i
missing_field_issues(rs, i, required_fields) ==
    Map(SelectSeq(required_fields, LAMBDA f : is_missing(rs[i], f)),
        LAMBDA f : At(i, Issue(row_path(rs[i]), "MISSING_FIELD", "ERROR",
                      "\\ud544\\uc218 \\ud544\\ub4dc \\ub204\\ub77d", f, "")))

\* validate.py 73, 79, 82-86: the three issues of the existence/size rule
file_not_found(i, p) ==
    At(i, Issue(p, "FILE_NOT_FOUND", "ERROR",
        "\\ud30c\\uc77c\\uc5d0 \\uc811\\uadfc \\ubd88\\uac00 \\ub610\\ub294 \\uc874\\uc7ac\\ud558\\uc9c0 \\uc54a\\uc74c",
        "", ""))

size_missing(i, p) ==
    At(i, Issue(p, "SIZE_MISSING", "ERROR",
        "size_bytes \\ub204\\ub77d/\\ube44\\uc815\\uc0c1", "size_bytes", ""))

\* size_mismatch with a severity worked out from the sizes
size_mismatch_graded(i, p, st_size, inv_size) ==
    At(i, Issue(p, "SIZE_MISMATCH",
        IF st_size < inv_size THEN "ERROR" ELSE "WARN",
        "\\uc2e4\\uc81c(" \o ToString(st_size) \o ") \\u2260 \\uae30\\ub85d("
            \o ToString(inv_size) \o ")",
        "size_bytes", ToString(inv_size)))

size_mismatch(i, p, st_size, inv_size) ==
    At(i, Issue(p, "SIZE_MISMATCH", "WARN",
        "\\uc2e4\\uc81c(" \o ToString(st_size) \o ") \\u2260 \\uae30\\ub85d("
            \o ToString(inv_size) \o ")",
        "size_bytes", ToString(inv_size)))

\* validate.py 66-86: existence and size of row i; exc names the exception
\* that leaves the loop body, if any
exist_size_issues(rs, i, check_file_exists, check_size_matches) ==
    LET p == row_path(rs[i])
        st == os_lstat(p)
        inv_size == _to_int_safely(get(rs[i], "size_bytes", PyNone))
        none == [iss |-> << >>, exc |-> ""]
    IN  IF p = "" THEN none
        ELSE IF st.exc = "ValueError" THEN [iss |-> << >>, exc |-> "ValueError"]
        ELSE IF st.exc = "OSError" THEN
            (IF check_file_exists
                THEN [iss |-> <<file_not_found(i, p)>>, exc |-> ""]
                ELSE none)
        ELSE IF ~check_size_matches THEN none
        ELSE IF inv_size.r = "OverflowError"
            THEN [iss |-> << >>, exc |-> "OverflowError"]
        ELSE IF inv_size.r = "none"
            THEN [iss |-> <<size_missing(i, p)>>, exc |-> ""]
        ELSE IF st.st_size # inv_size.n
            THEN [iss |-> <<size_mismatch(i, p, st.st_size, inv_size.n)>>,
                  exc |-> ""]
        ELSE none

\* validate.py 64-86: the loop over rows i..Len(rs); it stops at the first
\* row whose body raises
RECURSIVE exist_size_loop(_, _, _, _)
exist_size_loop(rs, i, check_file_exists, check_size_matches) ==
    IF i > Len(rs) THEN [iss |-> << >>, exc |-> ""]
    ELSE LET one == exist_size_issues(rs, i, check_file_exists,
                                      check_size_matches)
             rest == exist_size_loop(rs, i + 1, check_file_exists,
                                     check_size_matches)
         IN  IF one.exc # "" THEN one
             ELSE [iss |-> one.iss \o rest.iss, exc |-> rest.exc]

\* time_fields with birthtime_epoch checked whatever the option says
time_fields_always_birth(allow_missing_birthtime) ==
    <<"mtime_epoch", "atime_epoch", "ctime_epoch", "birthtime_epoch">>

\* validate.py 89-92
time_fields(allow_missing_birthtime) ==
    <<"mtime_epoch", "atime_epoch", "ctime_epoch">>
        \o (IF allow_missing_birthtime THEN << >> ELSE <<"birthtime_epoch">>)

\* validate.py 97-105: one timestamp field of row i
timestamp_issue(rs, i, tf, epoch_min) ==
    LET p == row_path(rs[i])
        v == get(rs[i], tf, PyNone)
        fv == _to_float_safely(v)
    IN  IF is_missing(rs[i], tf)
            THEN <<At(i, Issue(p, "TS_MISSING", "WARN",
                    "\\ud0c0\\uc784\\uc2a4\\ud0ec\\ud504 \\ub204\\ub77d",
                    tf, ""))>>
        ELSE IF fv = PyNone \/ fv = PyNaN
            THEN <<At(i, Issue(p, "TS_BAD_TYPE", "WARN",
                    "\\ud0c0\\uc784\\uc2a4\\ud0ec\\ud504 \\uac12\\uc774 \\uc22b\\uc790\\uac00 \\uc544\\ub2d8",
                    tf, str(v)))>>
        ELSE IF float_lt(fv, epoch_min)
            THEN <<At(i, Issue(p, "TS_OUT_OF_RANGE", "WARN",
                    "\\ube44\\uc815\\uc0c1(epoch<" \o str(epoch_min) \o ")",
                    tf, str(fv)))>>
        ELSE << >>

\* validate.py 94-105: all timestamp fields of row i
timestamp_issues(rs, i, epoch_min, allow_missing_birthtime) ==
    Flatten(Map(time_fields(allow_missing_birthtime),
                LAMBDA tf : timestamp_issue(rs, i, tf, epoch_min)))

\* validate.py 109-114: seen[p], the number of rows whose path text is p
seen_count(rs, p) == Cardinality({j \in 1..Len(rs) : row_path(rs[j]) = p})

\* dup_issue reporting every occurrence after the first instead of the path
dup_issue_per_extra(rs, i) ==
    LET p == row_path(rs[i])
        count == seen_count(rs, p)
    IN  IF p # "" /\ \E j \in 1..(i - 1) : row_path(rs[j]) = p
            THEN <<At(i, Issue(p, "DUP_PATH", "WARN",
                    "\\uc911\\ubcf5 path " \o ToString(count) \o "\\uac1c",
                    "", ""))>>
        ELSE << >>

\* validate.py 115-117: the dictionary is walked in insertion order, so a
\* path is reported where it was first seen
dup_issue(rs, i) ==
    LET p == row_path(rs[i])
        count == seen_count(rs, p)
    IN  IF p # "" /\ count > 1
           /\ \A j \in 1..(i - 1) : row_path(rs[j]) # p
            THEN <<At(i, Issue(p, "DUP_PATH", "WARN",
                    "\\uc911\\ubcf5 path " \o ToString(count) \o "\\uac1c",
                    "", ""))>>
        ELSE << >>

\* ext_issue testing the type of the flag only, not its value
ext_issue_any_bool(rs, i) ==
    LET ext_mismatch == get(rs[i], "ext_mismatch", PyNone)
    IN  IF ext_mismatch.t = "bool"
            THEN <<At(i, Issue(row_path(rs[i]), "EXT_MISMATCH", "INFO",
                    "\\ud655\\uc7a5\\uc790\\uc640 \\uc2dc\\uadf8\\ub2c8\\ucc98 \\ubd88\\uc77c\\uce58",
                    "ext_mismatch", "True"))>>
        ELSE << >>

\* validate.py 120-124
ext_issue(rs, i) ==
    LET ext_mismatch == get(rs[i], "ext_mismatch", PyNone)
    IN  IF ext_mismatch.t = "bool" /\ ext_mismatch.b
            THEN <<At(i, Issue(row_path(rs[i]), "EXT_MISMATCH", "INFO",
                    "\\ud655\\uc7a5\\uc790\\uc640 \\uc2dc\\uadf8\\ub2c8\\ucc98 \\ubd88\\uc77c\\uce58",
                    "ext_mismatch", "True"))>>
        ELSE << >>

\* i |-> f(i) over the rows, concatenated
OverRows(rs, f(_)) == Flatten([i \in 1..Len(rs) |-> f(i)])

\* the list of a call kept for the next one (a list of the module, or a
\* mutable default of a parameter) instead of a new one made at every entry
issue_list_kept ==
    [k \in 1..Len(issues) |-> [row |-> origin[k], iss |-> issues[k]]]

\* validate.py 54: `issues: List[Issue] = []`, the list the call appends to
\* as it is at the entry of the call
new_issue_list == << >>

\* validate_inventory_rows with the duplicate rule run before the
\* timestamp rule
validate_dups_before_timestamps(rs, c) ==
    LET s1 == OverRows(rs, LAMBDA i :
                missing_field_issues(rs, i, c.required_fields))
        s2 == IF c.check_file_exists \/ c.check_size_matches
                THEN exist_size_loop(rs, 1, c.check_file_exists,
                                     c.check_size_matches)
                ELSE [iss |-> << >>, exc |-> ""]
        s3 == OverRows(rs, LAMBDA i :
                timestamp_issues(rs, i, c.epoch_min,
                                 c.allow_missing_birthtime))
        s4 == IF c.detect_duplicate_paths
                THEN OverRows(rs, LAMBDA i : dup_issue(rs, i))
                ELSE << >>
        s5 == OverRows(rs, LAMBDA i : ext_issue(rs, i))
    IN  IF s2.exc # ""
            THEN [tagged |-> new_issue_list \o s1 \o s2.iss, exc |-> s2.exc]
        ELSE [tagged |-> new_issue_list \o s1 \o s2.iss \o s4 \o s3 \o s5,
              exc |-> ""]

\* validate.py 32-126.  tagged is the local list `issues` when the function
\* is left; exc is "" when it is left by `return issues`
validate_inventory_rows(rs, c) ==
    LET s1 == OverRows(rs, LAMBDA i :
                missing_field_issues(rs, i, c.required_fields))
        s2 == IF c.check_file_exists \/ c.check_size_matches
                THEN exist_size_loop(rs, 1, c.check_file_exists,
                                     c.check_size_matches)
                ELSE [iss |-> << >>, exc |-> ""]
        s3 == OverRows(rs, LAMBDA i :
                timestamp_issues(rs, i, c.epoch_min,
                                 c.allow_missing_birthtime))
        s4 == IF c.detect_duplicate_paths
                THEN OverRows(rs, LAMBDA i : dup_issue(rs, i))
                ELSE << >>
        s5 == OverRows(rs, LAMBDA i : ext_issue(rs, i))
    IN  IF s2.exc # ""
            THEN [tagged |-> new_issue_list \o s1 \o s2.iss, exc |-> s2.exc]
        ELSE [tagged |-> new_issue_list \o s1 \o s2.iss \o s3 \o s4 \o s5,
              exc |-> ""]

(***************************************************************************)
(* The signature stage.                                                    *)
(***************************************************************************)
\* the character of s at position k
CharAt(s, k) == SubSeq(s, k, k)

\* s.rfind(c), counted from 1; 0 when c does not occur
LastIndexOf(s, c) ==
    LET hits == {k \in 1..Len(s) : CharAt(s, k) = c}
    IN  IF hits = {} THEN 0 ELSE CHOOSE k \in hits : \A j \in hits : j <= k

\* Path(path).name: the text after the last separator
path_name(path) == SubSeq(path, LastIndexOf(path, "/") + 1, Len(path))

\* Path(path).suffix: from the last dot of the name, unless the name starts
\* or ends with that dot
path_suffix(path) ==
    LET name == path_name(path)
        i == LastIndexOf(name, ".")
    IN  IF 1 < i /\ i < Len(name) THEN SubSeq(name, i, Len(name)) ELSE ""

\* str.lower() of one character
LowerChar(c) ==
    CASE c = "B" -> "b" [] c = "I" -> "i" [] c = "N" -> "n" [] c = "J" -> "j"
      [] c = "P" -> "p" [] c = "E" -> "e" [] c = "G" -> "g" [] c = "T" -> "t"
      [] c = "X" -> "x" [] c = "D" -> "d" [] c = "F" -> "f" [] c = "H" -> "h"
      [] c = "M" -> "m" [] c = "L" -> "l" [] c = "A" -> "a" [] c = "C" -> "c"
      [] OTHER -> c

RECURSIVE lower(_)
lower(s) == IF s = "" THEN "" ELSE LowerChar(CharAt(s, 1)) \o lower(Tail(s))

RECURSIVE lstrip(_)
lstrip(s) == IF s # "" /\ CharAt(s, 1) = " " THEN lstrip(Tail(s)) ELSE s

RECURSIVE rstrip(_)
rstrip(s) ==
    IF s # "" /\ CharAt(s, Len(s)) = " "
        THEN rstrip(SubSeq(s, 1, Len(s) - 1)) ELSE s

\* signature.py 121-126
_KNOWN_EXT_NORMALIZE(ext) ==
    CASE ext = ".jpe" -> ".jpg"
      [] ext = ".jpeg" -> ".jpg"
      [] ext = ".tif" -> ".tiff"
      [] ext = ".htm" -> ".html"
      [] OTHER -> ext

\* signature.py 128-134
_normalize_ext(ext) ==
    LET e == lower(rstrip(lstrip(ext)))
    IN  IF e = "" THEN ""
        ELSE _KNOWN_EXT_NORMALIZE(IF CharAt(e, 1) = "." THEN e ELSE "." \o e)

\* signature.py 137-140
_disk_extension(path) == _normalize_ext(path_suffix(path))

\* mimetypes.guess_extension(mime) or ""
guess_extension(mime) ==
    CASE mime = "text/plain" -> ".txt"
      [] mime = "application/pdf" -> ".pdf"
      [] mime = "image/jpeg" -> ".jpg"
      [] mime = "text/html" -> ".html"
      [] mime = "image/tiff" -> ".tiff"
      [] mime = "application/octet-stream" -> ".bin"
      [] OTHER -> ""

\* mimetypes.guess_type(path)[0] or "": the type is read off the suffix of
\* the name, as it is written and then in lower case; the content of the
\* file is not looked at
guess_type(path) ==
    LET ext == lower(path_suffix(path))
    IN  CASE ext = ".txt" -> "text/plain"
          [] ext = ".bin" -> "application/octet-stream"
          [] ext = ".pdf" -> "application/pdf"
          [] ext \in {".jpg", ".jpeg", ".jpe"} -> "image/jpeg"
          [] ext \in {".htm", ".html"} -> "text/html"
          [] ext \in {".tif", ".tiff"} -> "image/tiff"
          [] OTHER -> ""

\* signature.py 49-50: magic.from_file(path, mime=True) and
\* magic.from_file(path, mime=False) of python-magic.  libmagic examines
\* the entry itself, so a link is reported as a link; a file that cannot be
\* opened makes the call raise
libmagic(p) ==
    IF DirEntry(p).kind = "symlink"
        THEN [exc |-> "", mime |-> "inode/symlink",
              description |-> "symbolic link to " \o DirEntry(p).target]
    ELSE IF p \in Unreadable
        THEN [exc |-> "PermissionError", mime |-> "", description |-> ""]
    ELSE [exc |-> "", mime |-> DirEntry(p).mime,
          description |-> DirEntry(p).description]

\* signature.py 143-148
_ext_from_mime(mime) ==
    IF mime = "" THEN "" ELSE _normalize_ext(guess_extension(mime))

\* signature.py 151-166
_is_ext_mismatch(disk_ext, real_ext, real_mime) ==
    LET d == _normalize_ext(disk_ext)
        r == _normalize_ext(real_ext)
    IN  IF d = "" /\ r = "" THEN FALSE
        ELSE IF d # "" /\ r = "" THEN FALSE
        ELSE d # r

\* signature.py 21-64.  Path.stat() follows links, so only a live regular
\* file is probed.  _HAS_MAGIC is whether `import magic` succeeded when the
\* module was loaded (signature.py 11-15).  libmagic is asked only when the
\* caller prefers it and it is installed; when it is not asked, raises or
\* names no type, the type is guessed from the name of the file and the
\* description is the guessed type
probe_file_type(p, prefer_magic, _HAS_MAGIC) ==
    IF p = PathNul THEN [exc |-> "ValueError"]
    ELSE IF DirEntry(followed(p)).kind # "file"
        THEN [exc |-> "", result |-> "none"]
    ELSE LET asked == prefer_magic /\ _HAS_MAGIC /\ libmagic(p).exc = ""
             magic_mime == IF asked THEN libmagic(p).mime ELSE ""
             magic_desc == IF asked THEN libmagic(p).description ELSE ""
             real_mime == IF magic_mime = "" THEN guess_type(p)
                          ELSE magic_mime
             description == IF magic_mime = "" /\ magic_desc = ""
                                THEN real_mime ELSE magic_desc
         IN  [exc |-> "", result |-> "dict",
              real_mime |-> real_mime,
              real_ext |-> _ext_from_mime(real_mime),
              description |-> description]

\* signature.py 87-114: the loop body, the row as it is left
signed_row(row, prefer_magic, _HAS_MAGIC) ==
    LET p == get(row, "path", PyNone)
        result == probe_file_type(str(p), prefer_magic, _HAS_MAGIC)
        disk_ext == _disk_extension(str(p))
    IN  IF p = PyNone \/ p = PyStr("")
            THEN [row EXCEPT !["sig_mime"] = PyStr(""),
                             !["sig_ext"] = PyStr(""),
                             !["sig_desc"] = PyStr(""),
                             !["ext_mismatch"] = PyBool(FALSE),
                             !["ext_on_disk"] = PyStr("")]
        ELSE IF result.result = "none"
            THEN [row EXCEPT !["sig_mime"] = PyStr(""),
                             !["sig_ext"] = PyStr(""),
                             !["sig_desc"] = PyStr(""),
                             !["ext_mismatch"] = PyBool(FALSE),
                             !["ext_on_disk"] = PyStr(disk_ext)]
        ELSE [row EXCEPT !["sig_mime"] = PyStr(result.real_mime),
                         !["sig_ext"] = PyStr(result.real_ext),
                         !["sig_desc"] = PyStr(result.description),
                         !["ext_on_disk"] = PyStr(disk_ext),
                         !["ext_mismatch"] = PyBool(
                            _is_ext_mismatch(disk_ext, result.real_ext,
                                             result.real_mime))]

\* the probe of this row raises (the row has a path and the probe faults)
probe_raises(row, prefer_magic, _HAS_MAGIC) ==
    LET p == get(row, "path", PyNone)
    IN  /\ p # PyNone /\ p # PyStr("")
        /\ probe_file_type(str(p), prefer_magic, _HAS_MAGIC).exc # ""

\* signature.py 67-115: rows are annotated in place, in order; a probe that
\* raises leaves the rows before it annotated and the others untouched
add_signature_to_rows(rs, prefer_magic, _HAS_MAGIC) ==
    LET bad == {i \in 1..Len(rs) :
                    probe_raises(rs[i], prefer_magic, _HAS_MAGIC)}
        stop == IF bad = {} THEN Len(rs) + 1
                ELSE CHOOSE i \in bad : \A j \in bad : i <= j
    IN  [rows |-> [i \in 1..Len(rs) |->
                      IF i < stop
                          THEN signed_row(rs[i], prefer_magic, _HAS_MAGIC)
                          ELSE rs[i]],
         exc |-> IF bad = {} THEN "" ELSE "ValueError"]

(***************************************************************************)
(* The hashing collaborator (hashing.py) and the sampled re-verification.  *)
(***************************************************************************)
\* bool(v): the truth value Python gives v
truthy(v) ==
    CASE v.t \in {"absent", "none"} -> FALSE
      [] v.t = "str" -> v.s # ""
      [] v.t = "int" -> v.n # 0
      [] v.t = "float" -> v.tenths # 0
      [] v.t = "bool" -> v.b
      [] v.t = "list" -> TRUE
      [] OTHER -> TRUE

\* hashlib.new(algo) knows the algorithm
hashlib_new_ok(algo) == algo \in {"md5", "sha256", "shake_128"}

\* the file at p can be opened and read (Path.open follows links)
readable(p) ==
    DirEntry(followed(p)).kind = "file" /\ followed(p) \notin Unreadable

\* h.hexdigest() of the bytes of the file at p
hexdigest(p, algo) ==
    CASE followed(p) = PathA /\ algo = "md5" ->
            "62f012671b55a645d4ab5ffc25db1973"
      [] followed(p) = PathA /\ algo = "sha256" ->
            "77cf12060d47183ea8c40345e7389e7e05cb0753cab374a5e74f9329815b4cb5"
      [] followed(p) = PathB /\ algo = "md5" ->
            "7969d1bea1f21af0d5c42978080c3bf6"
      [] followed(p) = PathB /\ algo = "sha256" ->
            "f2ed6236ff1c331fd5ae72ac5c5fea3178ba2012eba7da3465d079812f4a85db"

\* hashing.py 9-40.  r is "dict" (d maps each algorithm to its digest),
\* "none" (the file cannot be read) or the name of the exception raised
compute_file_hashes(p, algorithms) ==
    LET unknown == {k \in 1..Len(algorithms) :
                       ~hashlib_new_ok(algorithms[k])}
    IN  IF unknown # {}
            THEN [r |-> "ValueError",
                  msg |-> "unsupported hash type "
                          \o algorithms[CHOOSE k \in unknown :
                                            \A j \in unknown : k <= j]]
        ELSE IF p = PathNul
            THEN [r |-> "ValueError", msg |-> "embedded null byte"]
        ELSE IF ~readable(p) THEN [r |-> "none"]
        ELSE IF \E k \in 1..Len(algorithms) : algorithms[k] = "shake_128"
            THEN [r |-> "TypeError"]
        ELSE [r |-> "dict",
              d |-> [a \in {algorithms[k] : k \in 1..Len(algorithms)} |->
                        hexdigest(p, a)]]

\* hashing.py 55-68: the loop body of add_hashes_to_rows, default
\* algorithms, for a row of the traversal (its path holds no NUL)
hashed_row(row) ==
    LET p == get(row, "path", PyNone)
        result == compute_file_hashes(str(p), <<"md5", "sha256">>)
    IN  IF ~truthy(p) \/ result.r = "none"
            THEN [row EXCEPT !["md5"] = PyStr(""), !["sha256"] = PyStr("")]
        ELSE [row EXCEPT !["md5"] = PyStr(result.d["md5"]),
                         !["sha256"] = PyStr(result.d["sha256"])]

\* validate.py 151: the positions of the rows with a path, in batch order
RECURSIVE candidates_from(_, _)
candidates_from(rs, i) ==
    IF i > Len(rs) THEN << >>
    ELSE (IF truthy(get(rs[i], "path", PyNone)) THEN <<i>> ELSE << >>)
            \o candidates_from(rs, i + 1)

candidates(rs) == candidates_from(rs, 1)

Min(a, b) == IF a <= b THEN a ELSE b
Max(a, b) == IF a <= b THEN b ELSE a

\* validate.py 156: k = min(max(int(n * sample_ratio), sample_min),
\* sample_max); sample_ratio is kept in hundredths
sample_count(n, hc) ==
    Min(Max((n * hc.sample_ratio) \div 100, hc.sample_min), hc.sample_max)

\* k draws that may take the same candidate again
random_sample_replacing(cands, k) == [1..k -> 1..Len(cands)]

\* random.sample(candidates, k): every arrangement of k different candidates
random_sample(cands, k) ==
    {s \in [1..k -> 1..Len(cands)] :
        \A a, b \in 1..k : a # b => s[a] # s[b]}

\* validate.py 157: sample = random.sample(candidates, k) if n > k else
\* candidates -- the lists of positions the call may go on to verify
draw_sample(cands, k) ==
    IF Len(cands) > k
        THEN {[j \in 1..k |-> cands[s[j]]] : s \in random_sample(cands, k)}
        ELSE {cands}

\* the skip reported once for every row of the batch
skipped_issue_per_row(rs) ==
    [i \in 1..Len(rs) |->
        At(0, Issue("", "HASH_VERIFY_SKIPPED", "INFO", "", "", ""))]

\* validate.py 147: the one scan-wide issue when the collaborator is missing
skipped_issues(rs) ==
    <<At(0, Issue("", "HASH_VERIFY_SKIPPED", "INFO",
        "compute_file_hashes \\uc0ac\\uc6a9 \\ubd88\\uac00(\\ubaa8\\ub4c8 import \\uc2e4\\ud328)",
        "", ""))>>

\* validate.py 173: expected = str(r.get(algo, missing_as) or missing_as)
expected_digest(r, algo) ==
    LET v == get(r, algo, PyStr(""))
    IN  IF truthy(v) THEN str(v) ELSE ""

\* validate.py 174: actual = result.get(algo, missing_as) or missing_as
actual_digest(d, algo) == IF algo \in DOMAIN d THEN d[algo] ELSE ""

\* the digests compared as they are written
digests_differ_exact(expected, actual) == expected # actual

\* validate.py 181: expected.lower() != actual.lower()
digests_differ(expected, actual) == lower(expected) # lower(actual)

\* s[:12]
first12(s) == SubSeq(s, 1, Min(12, Len(s)))

\* validate.py 172-186: one algorithm of a row whose digests were recomputed
algo_issue(rs, i, d, algo) ==
    LET p == str(get(rs[i], "path", PyNone))
        expected == expected_digest(rs[i], algo)
        actual == actual_digest(d, algo)
    IN  IF expected = ""
            THEN <<At(i, Issue(p, "HASH_EXPECTED_MISSING", "WARN",
                        algo \o " \\uac12 \\ub204\\ub77d", algo, ""))>>
        ELSE IF actual = ""
            THEN <<At(i, Issue(p, "HASH_ACTUAL_MISSING", "WARN",
                        algo \o " \\uc7ac\\uacc4\\uc0b0 \\uc2e4\\ud328", algo, ""))>>
        ELSE IF digests_differ(expected, actual)
            THEN <<At(i, Issue(p, "HASH_VERIFY_FAIL", "ERROR",
                        algo \o " \\ubd88\\uc77c\\uce58: expected="
                            \o first12(expected) \o "\\u2026 actual="
                            \o first12(actual) \o "\\u2026",
                        algo, expected))>>
        ELSE << >>

\* validate.py 160-186: the loop body for the sampled row i; exc names the
\* exception that leaves the body, if any
verify_row(rs, i, algorithms) ==
    LET p == str(get(rs[i], "path", PyNone))
        result == compute_file_hashes(p, algorithms)
    IN  IF result.r = "ValueError"
            THEN [iss |-> <<At(i, Issue(p, "HASH_VERIFY_ERROR", "ERROR",
                        "\\ud574\\uc2dc \\uacc4\\uc0b0 \\uc2e4\\ud328: " \o result.msg,
                        "", ""))>>,
                  exc |-> ""]
        ELSE IF result.r = "TypeError"
            THEN [iss |-> << >>, exc |-> "TypeError"]
        ELSE IF result.r = "none"
            THEN [iss |-> <<At(i, Issue(p, "HASH_VERIFY_READ_FAIL", "WARN",
                        "\\ud30c\\uc77c \\uc77d\\uae30 \\uc2e4\\ud328(\\uad8c\\ud55c/\\uc190\\uc0c1 \\ub4f1)",
                        "", ""))>>,
                  exc |-> ""]
        ELSE [iss |-> Flatten([k \in 1..Len(algorithms) |->
                        algo_issue(rs, i, result.d, algorithms[k])]),
              exc |-> ""]

\* validate.py 159-186: the loop over the sample from its j-th entry on; it
\* stops at the first row whose body raises.  done holds the positions
\* whose body ran to its end
RECURSIVE verify_loop(_, _, _, _)
verify_loop(rs, smp, j, algorithms) ==
    IF j > Len(smp) THEN [iss |-> << >>, exc |-> "", done |-> << >>]
    ELSE LET one == verify_row(rs, smp[j], algorithms)
         IN  IF one.exc # ""
                THEN [iss |-> one.iss, exc |-> one.exc, done |-> << >>]
             ELSE LET rest == verify_loop(rs, smp, j + 1, algorithms)
                  IN  [iss |-> one.iss \o rest.iss, exc |-> rest.exc,
                       done |-> <<smp[j]>> \o rest.done]

\* validate.py 129-187, smp being the sample line 157 came to.  tagged is
\* the local list issues (each issue with the position of its row) as the
\* call leaves it, exc the exception that ends the call ("" if it returns)
sample_verify_hashes(rs, hc, smp) ==
    IF ~hc.available
        THEN [tagged |-> skipped_issues(rs), exc |-> "", done |-> << >>]
    ELSE IF candidates(rs) = << >>
        THEN [tagged |-> << >>, exc |-> "", done |-> << >>]
    ELSE LET res == verify_loop(rs, smp, 1, hc.algorithms)
         IN  [tagged |-> res.iss, exc |-> res.exc, done |-> res.done]

\* summarize_issues counting by severity only
RECURSIVE summarize_severities(_)
summarize_severities(iss) ==
    IF iss = << >> THEN << >>
    ELSE LET n == Len(iss)
             before == summarize_severities(SubSeq(iss, 1, n - 1))
         IN  [k \in DOMAIN before \cup {iss[n].severity} |->
                (IF k \in DOMAIN before THEN before[k] ELSE 0)
                    + (IF k = iss[n].severity THEN 1 ELSE 0)]

\* validate.py 211-220: the counts keyed by severity and by code
RECURSIVE summarize_issues(_)
summarize_issues(iss) ==
    IF iss = << >> THEN << >>
    ELSE LET n == Len(iss)
             before == summarize_issues(SubSeq(iss, 1, n - 1))
             bump(m, key) ==
                [k \in DOMAIN m \cup {key} |->
                    (IF k \in DOMAIN m THEN m[k] ELSE 0)
                        + (IF k = key THEN 1 ELSE 0)]
         IN  bump(bump(before, iss[n].severity), iss[n].code)

(***************************************************************************)
(* The batch and the configuration.                                        *)
(***************************************************************************)
Fields ==
    {"path", "name", "parent", "size_bytes", "mtime_epoch", "atime_epoch",
     "ctime_epoch", "birthtime_epoch", "is_symlink", "ext_mismatch",
     "sig_mime", "sig_ext", "sig_desc", "ext_on_disk", "md5", "sha256"}

\* inventory.py 30-41: the row the traversal recorded for the regular file
\* at p (follow_symlinks=False, a platform without st_birthtime)
collected_row(p) ==
    [f \in Fields |->
        CASE f = "path" -> PyStr(p)
          [] f = "name" -> PyStr(path_name(p))
          [] f = "parent" -> PyStr(SubSeq(p, 1, LastIndexOf(p, "/") - 1))
          [] f = "size_bytes" -> PyInt(ScannedSize(p))
          [] f = "mtime_epoch" -> PyFloat(10000)
          [] f = "atime_epoch" -> PyFloat(20005)
          [] f = "ctime_epoch" -> PyFloat(15000)
          [] f = "birthtime_epoch" -> PyNone
          [] f = "is_symlink" -> PyBool(FALSE)
          [] OTHER -> ABSENT]

\* validate.py 35-43: the keyword defaults
DefaultConfig ==
    [required_fields |-> <<"path", "name", "parent", "size_bytes",
                           "mtime_epoch", "atime_epoch", "ctime_epoch">>,
     check_file_exists |-> TRUE,
     check_size_matches |-> TRUE,
     epoch_min |-> PyFloat(0),
     allow_missing_birthtime |-> TRUE,
     detect_duplicate_paths |-> TRUE]

\* the regular files the traversal found
CollectablePaths == {PathA, PathB, PathGone}

\* values a caller (or an imported CSV) puts in place of a collected one
FieldValues(f) ==
    CASE f = "path" -> {ABSENT, PyNone, PyStr(""), PyStr(PathDead),
                        PyStr(PathLink), PyStr(PathNul)}
      [] f = "name" -> {PyNone, PyStr("")}
      [] f = "size_bytes" -> {ABSENT, PyStr("abc"), PyNaN, PyInf, PyInt(0),
                              PyStr("50")}
      [] f = "mtime_epoch" -> {ABSENT, PyStr("abc"), PyNaN, PyInt(-5),
                               PyInt(0), PyInt(5), PyNegInf}
      [] f = "atime_epoch" -> {PyStr(""), PyStr("-0.5")}
      [] f = "ctime_epoch" -> {PyList}
      [] f = "birthtime_epoch" -> {ABSENT, PyInt(-5)}
      [] f = "ext_mismatch" -> {PyBool(TRUE), PyStr("True"), PyInt(1)}
      [] OTHER -> {}

\* the keyword arguments a caller passes
Configurations ==
    {DefaultConfig,
     [DefaultConfig EXCEPT !.check_file_exists = FALSE],
     [DefaultConfig EXCEPT !.check_size_matches = FALSE],
     [DefaultConfig EXCEPT !.check_file_exists = FALSE,
                           !.check_size_matches = FALSE],
     [DefaultConfig EXCEPT !.detect_duplicate_paths = FALSE],
     [DefaultConfig EXCEPT !.allow_missing_birthtime = FALSE],
     [DefaultConfig EXCEPT !.epoch_min = PyFloat(100)],
     [DefaultConfig EXCEPT !.required_fields = << >>,
                           !.allow_missing_birthtime = FALSE,
                           !.epoch_min = PyFloat(100)],
     [DefaultConfig EXCEPT !.required_fields =
                              <<"birthtime_epoch", "ext_mismatch", "name">>,
                           !.allow_missing_birthtime = FALSE]}

\* validate.py 132-135: the keyword defaults of sample_verify_hashes;
\* available says that the import of compute_file_hashes (lines 12-15)
\* succeeded; sample_ratio is in hundredths
DefaultHashConfig ==
    [algorithms |-> <<"md5", "sha256">>,
     sample_ratio |-> 5,
     sample_min |-> 5,
     sample_max |-> 200,
     available |-> TRUE]

\* the keyword arguments a caller passes to sample_verify_hashes
HashConfigurations ==
    {DefaultHashConfig,
     [DefaultHashConfig EXCEPT !.sample_ratio = 25, !.sample_min = 0],
     [DefaultHashConfig EXCEPT !.sample_ratio = 50, !.sample_min = 1,
                               !.sample_max = 2],
     [DefaultHashConfig EXCEPT !.sample_ratio = 100, !.sample_min = 0,
                               !.sample_max = 2],
     [DefaultHashConfig EXCEPT !.sample_ratio = 0, !.sample_min = 2,
                               !.sample_max = 1],
     [DefaultHashConfig EXCEPT !.algorithms = <<"md5", "bogus">>],
     [DefaultHashConfig EXCEPT !.algorithms = <<"sha256", "md5">>,
                               !.sample_ratio = 100, !.sample_min = 0,
                               !.sample_max = 2],
     [DefaultHashConfig EXCEPT !.algorithms = <<"shake_128">>],
     [DefaultHashConfig EXCEPT !.available = FALSE]}

\* rows of an inventory that carries digests: two files hashed by
\* add_hashes_to_rows (one with a stale md5), a file deleted since, and a
\* row without a path
InventoryRows ==
    {hashed_row(collected_row(PathA)),
     [hashed_row(collected_row(PathB)) EXCEPT !["md5"] = PyStr("deadbeef")],
     hashed_row(collected_row(PathGone)),
     [hashed_row(collected_row(PathA)) EXCEPT !["path"] = PyStr("")]}

\* values a caller (or an imported CSV) puts in place of a path or a digest
DigestValues(f) ==
    CASE f = "path" -> {ABSENT, PyNone, PyStr(PathNul), PyStr(PathDead)}
      [] f = "md5" -> {ABSENT, PyNone, PyStr(""),
                       PyStr("62F012671B55A645D4AB5FFC25DB1973"),
                       PyStr("DEADBEEF")}
      [] f = "sha256" -> {ABSENT}
      [] OTHER -> {}

(***************************************************************************)
(* The validate command (main.py cmd_validate): the traversal of a tree,   *)
(* the optional hash and signature stages, both validators, the report.    *)
(***************************************************************************)
\* the entries a scanned directory can hold
TreeEntries == {PathA, PathB, PathGone, PathLink, PathDead}

\* what the entry at p was when the traversal saw it: the three regular
\* files were regular files, the two links were links
ScannedKind(p) ==
    IF p \in {PathA, PathB, PathGone} THEN "file"
    ELSE IF p \in {PathLink, PathDead} THEN "symlink"
    ELSE "none"

\* the entry at p in the directory whose listing is tr, as the traversal
\* saw it: the directory holds what os.scandir lists and nothing else
Scanned(tr, p) ==
    IF \E k \in 1..Len(tr) : tr[k] = p
        THEN (IF ScannedKind(p) = "file"
                THEN [kind |-> "file", size |-> ScannedSize(p)]
                ELSE [kind |-> "symlink", target |-> DirEntry(p).target])
    ELSE [kind |-> "none"]

\* the path a call that follows links came to in the scanned directory
scan_followed(tr, p) ==
    IF Scanned(tr, p).kind = "symlink" THEN Scanned(tr, p).target ELSE p

\* inventory.py 93-96: entry.is_file(follow_symlinks=follow_symlinks); a
\* link is a file only if it is followed and leads to a file that is there
is_file(tr, p, follow_symlinks) ==
    Scanned(tr, IF follow_symlinks THEN scan_followed(tr, p) ELSE p).kind
        = "file"

\* inventory.py 116-120: path.stat() if follow_symlinks else os.lstat(path);
\* ok is FALSE where the code returns None
_safe_stat(tr, p, follow_symlinks) ==
    LET q == IF follow_symlinks THEN scan_followed(tr, p) ELSE p
    IN  IF Scanned(tr, q).kind = "file"
            THEN [ok |-> TRUE, st_size |-> Scanned(tr, q).size]
        ELSE IF Scanned(tr, q).kind = "symlink"
            THEN [ok |-> TRUE, st_size |-> Len(Scanned(tr, q).target)]
        ELSE [ok |-> FALSE]

\* inventory.py 30-41: the row of the entry at p (a platform without
\* st_birthtime)
inventory_row(tr, p, follow_symlinks) ==
    [f \in Fields |->
        CASE f = "path" -> PyStr(p)
          [] f = "name" -> PyStr(path_name(p))
          [] f = "parent" -> PyStr(SubSeq(p, 1, LastIndexOf(p, "/") - 1))
          [] f = "size_bytes" ->
                PyInt(_safe_stat(tr, p, follow_symlinks).st_size)
          [] f = "mtime_epoch" -> PyFloat(10000)
          [] f = "atime_epoch" -> PyFloat(20005)
          [] f = "ctime_epoch" -> PyFloat(15000)
          [] f = "birthtime_epoch" -> PyNone
          [] f = "is_symlink" -> PyBool(Scanned(tr, p).kind = "symlink")
          [] OTHER -> ABSENT]

\* inventory.py 20-44 over the directory whose listing is tr, without
\* exclude patterns: the entries are taken in the order of the listing; one
\* that is not a file, or that cannot be examined, is skipped
collect_inventory(tr, follow_symlinks) ==
    Flatten([k \in 1..Len(tr) |->
        IF is_file(tr, tr[k], follow_symlinks)
           /\ _safe_stat(tr, tr[k], follow_symlinks).ok
            THEN <<inventory_row(tr, tr[k], follow_symlinks)>>
            ELSE << >>])

\* hashing.py 43-69: rows are given their digests in place, in order; a
\* call of compute_file_hashes that raises leaves the rows before it
\* hashed and the others untouched
add_hashes_to_rows(rs, algorithms) ==
    LET p(i) == get(rs[i], "path", PyNone)
        result(i) == compute_file_hashes(str(p(i)), algorithms)
        bad == {i \in 1..Len(rs) :
                   truthy(p(i)) /\ result(i).r \notin {"dict", "none"}}
        stop == IF bad = {} THEN Len(rs) + 1
                ELSE CHOOSE i \in bad : \A j \in bad : i <= j
        hashed(i) ==
            [f \in Fields |->
                IF \E k \in 1..Len(algorithms) : algorithms[k] = f
                    THEN IF ~truthy(p(i)) \/ result(i).r = "none"
                            THEN PyStr("")
                            ELSE PyStr(result(i).d[f])
                    ELSE rs[i][f]]
    IN  [rows |-> [i \in 1..Len(rs) |->
                      IF i < stop THEN hashed(i) ELSE rs[i]],
         exc |-> IF bad = {} THEN "" ELSE result(stop).r]

\* main.py 203-212, 249-257: the options of the validate command as
\* argparse leaves them when none is given; the ratio is in hundredths
DefaultArguments ==
    [follow_symlinks |-> FALSE,
     with_hash |-> FALSE,
     hash_algorithms |-> <<"md5", "sha256">>,
     with_signature |-> FALSE,
     sig_no_magic |-> FALSE,
     skip_exist_check |-> FALSE,
     skip_size_check |-> FALSE,
     strict_birthtime |-> FALSE,
     skip_dup_check |-> FALSE,
     verify_hash |-> FALSE,
     hash_sample_ratio |-> 5,
     hash_sample_min |-> 5,
     hash_sample_max |-> 200]

\* main.py 207: the algorithms a caller names for the hash stage
HashStageAlgorithms == {<<"md5", "sha256">>, <<"md5">>}

\* the command lines a user gives
Arguments ==
    {DefaultArguments,
     [DefaultArguments EXCEPT !.follow_symlinks = TRUE],
     [DefaultArguments EXCEPT !.with_hash = TRUE, !.verify_hash = TRUE],
     [DefaultArguments EXCEPT !.follow_symlinks = TRUE, !.with_hash = TRUE,
                              !.verify_hash = TRUE],
     [DefaultArguments EXCEPT !.verify_hash = TRUE],
     [DefaultArguments EXCEPT !.with_hash = TRUE],
     [DefaultArguments EXCEPT !.with_hash = TRUE, !.verify_hash = TRUE,
                              !.hash_algorithms = <<"md5">>,
                              !.hash_sample_ratio = 50,
                              !.hash_sample_min = 1,
                              !.hash_sample_max = 2],
     [DefaultArguments EXCEPT !.follow_symlinks = TRUE, !.with_hash = TRUE,
                              !.with_signature = TRUE, !.verify_hash = TRUE],
     [DefaultArguments EXCEPT !.follow_symlinks = TRUE, !.with_hash = TRUE,
                              !.verify_hash = TRUE,
                              !.skip_exist_check = TRUE,
                              !.skip_size_check = TRUE],
     [DefaultArguments EXCEPT !.with_signature = TRUE,
                              !.strict_birthtime = TRUE,
                              !.skip_dup_check = TRUE],
     [DefaultArguments EXCEPT !.with_signature = TRUE,
                              !.sig_no_magic = TRUE],
     [DefaultArguments EXCEPT !.with_hash = TRUE, !.verify_hash = TRUE,
                              !.hash_algorithms = <<"md5", "bogus">>]}

\* main.py 160-166: the keyword arguments of validate_inventory_rows
validate_kwargs(a) ==
    [DefaultConfig EXCEPT !.check_file_exists = ~a.skip_exist_check,
                          !.check_size_matches = ~a.skip_size_check,
                          !.allow_missing_birthtime = ~a.strict_birthtime,
                          !.detect_duplicate_paths = ~a.skip_dup_check]

\* main.py 170-177: the keyword arguments of sample_verify_hashes; main.py
\* imports the hashing module itself, so the collaborator is there
verify_kwargs(a) ==
    [algorithms |-> a.hash_algorithms,
     sample_ratio |-> a.hash_sample_ratio,
     sample_min |-> a.hash_sample_min,
     sample_max |-> a.hash_sample_max,
     available |-> TRUE]

\* main.py 169: the condition under which the verifier is called
verifier_called(a, rs) ==
    /\ a.verify_hash
    /\ \E i \in 1..Len(rs) : rs[i]["md5"] # ABSENT \/ rs[i]["sha256"] # ABSENT

\* main.py 159-177: issues = []; issues += ...; issues += ...
aggregate(cross, verifier) == cross \o verifier

\* validate.py 190-208: one line of the report per issue, the columns in
\* the order of fieldnames
write_issues_csv(iss) ==
    [k \in 1..Len(iss) |->
        <<iss[k].severity, iss[k].code, iss[k].path, iss[k].field,
          iss[k].value, iss[k].detail>>]

\* cmd as it is before the command has run
NotRun ==
    [args |-> DefaultArguments, called |-> FALSE, cross |-> << >>,
     verifier |-> << >>, report |-> << >>]

(***************************************************************************)
(* What the validators do to the batch.  Both reach rows only by walking   *)
(* it (for r in rows, validate.py 57, 65, 94, 110, 120, 151) and reach a   *)
(* row only through calls on its dictionary; a row of candidates or of     *)
(* sample is the very dictionary that rows holds.  The batch a call leaves *)
(* is the batch it was passed with those calls made on it, in order.       *)
(***************************************************************************)
\* a call on the dictionary of a row: r.get(key[, default]), key in r
DictGet(key) == [op |-> "get", key |-> key, value |-> PyNone]
DictIn(key) == [op |-> "in", key |-> key, value |-> PyNone]
\* the dictionary r after one call on it: a lookup and a membership test
\* leave it as it is, setdefault gives it the key if it lacks the key
dict_after(r, call) ==
    IF call.op = "setdefault" /\ r[call.key] = ABSENT
        THEN [r EXCEPT ![call.key] = call.value]
    ELSE r

\* the dictionary r after the calls from the k-th on, made in order
RECURSIVE dict_after_from(_, _, _)
dict_after_from(r, calls, k) ==
    IF k > Len(calls) THEN r
    ELSE dict_after_from(dict_after(r, calls[k]), calls, k + 1)

\* the dictionary r after the calls, made in order
dict_after_all(r, calls) == dict_after_from(r, calls, 1)

\* required_field_calls with the lookup written r.setdefault(f, ""): a
\* required key the row lacks is added to it
required_field_calls_setdefault(r, required_fields) ==
    <<DictGet("path")>>
        \o Map(required_fields, LAMBDA f :
                [op |-> "setdefault", key |-> f, value |-> PyStr("")])

\* validate.py 58-60: str(r.get("path", "")), then for every required
\* field `f not in r or r.get(f) in (None, "")`
required_field_calls(r, required_fields) ==
    <<DictGet("path")>>
        \o Flatten(Map(required_fields, LAMBDA f :
                IF r[f] = ABSENT THEN <<DictIn(f)>>
                                 ELSE <<DictIn(f), DictGet(f)>>))

\* validate.py 66, 77: the path, and the recorded size once os.lstat has
\* succeeded
exist_size_calls(r, check_size_matches) ==
    <<DictGet("path")>>
        \o (IF row_path(r) # "" /\ os_lstat(row_path(r)).exc = ""
               /\ check_size_matches
                THEN <<DictGet("size_bytes")>>
                ELSE << >>)

\* validate.py 95-102: the path, then for every timestamp field the test
\* of line 97, the lookup of line 100 and, for a value that is no number,
\* the lookup of line 102
timestamp_calls(r, allow_missing_birthtime) ==
    <<DictGet("path")>>
        \o Flatten(Map(time_fields(allow_missing_birthtime), LAMBDA tf :
                IF r[tf] = ABSENT THEN <<DictIn(tf)>>
                ELSE IF is_missing(r, tf) THEN <<DictIn(tf), DictGet(tf)>>
                ELSE IF _to_float_safely(r[tf]) \in {PyNone, PyNaN}
                    THEN <<DictIn(tf), DictGet(tf), DictGet(tf), DictGet(tf)>>
                ELSE <<DictIn(tf), DictGet(tf), DictGet(tf)>>))

\* validate.py 111
dup_calls(r) == <<DictGet("path")>>

\* validate.py 121-122
ext_calls(r) == <<DictGet("path"), DictGet("ext_mismatch")>>

\* validate.py 64-86: the row whose existence/size check raises, 0 if none
\* does: the loop does not reach the rows after it, and the stages after
\* it are not run
raised_at(rs, c) ==
    LET raising == {i \in 1..Len(rs) :
                       exist_size_issues(rs, i, c.check_file_exists,
                                         c.check_size_matches).exc # ""}
    IN  IF ~(c.check_file_exists \/ c.check_size_matches) \/ raising = {}
            THEN 0
            ELSE CHOOSE i \in raising : \A j \in raising : i <= j

\* validate.py 56-124: the calls made on row i from the entry of
\* validate_inventory_rows until it is left, in order; stop is the row at
\* which the call is left by an exception, 0 if it returns
validate_calls(rs, i, c, stop) ==
    required_field_calls(rs[i], c.required_fields)
    \o (IF (c.check_file_exists \/ c.check_size_matches)
           /\ (stop = 0 \/ i <= stop)
            THEN exist_size_calls(rs[i], c.check_size_matches)
            ELSE << >>)
    \o (IF stop = 0
            THEN timestamp_calls(rs[i], c.allow_missing_birthtime)
                 \o (IF c.detect_duplicate_paths THEN dup_calls(rs[i])
                                                 ELSE << >>)
                 \o ext_calls(rs[i])
            ELSE << >>)

\* validate.py 32-126: the caller's list when the call is left, by return
\* or by an exception
batch_after_validate(rs, c) ==
    LET stop == raised_at(rs, c)
    IN  [i \in 1..Len(rs) |->
            dict_after_all(rs[i], validate_calls(rs, i, c, stop))]

\* validate.py 151, 160, 173: the calls made on row i from the entry of
\* sample_verify_hashes until it is left: the test of line 151 on every
\* row, the path of every sampled row the loop reaches (those whose body
\* ran to its end, done, and the one after them) and, where
\* compute_file_hashes returned digests, the recorded digest of every
\* algorithm
verify_calls(rs, i, hc, smp, done) ==
    IF ~hc.available THEN << >>
    ELSE <<DictGet("path")>>
         \o Flatten([j \in 1..Len(smp) |->
                IF smp[j] # i \/ j > Len(done) + 1 THEN << >>
                ELSE <<DictGet("path")>>
                     \o (IF compute_file_hashes(
                               str(get(rs[i], "path", PyNone)),
                               hc.algorithms).r = "dict"
                            THEN Map(hc.algorithms,
                                     LAMBDA algo : DictGet(algo))
                            ELSE << >>)])

\* validate.py 129-187: the caller's list when the call is left, done
\* being the sampled rows whose loop body ran to its end
batch_after_verify(rs, hc, smp, done) ==
    [i \in 1..Len(rs) |->
        dict_after_all(rs[i], verify_calls(rs, i, hc, smp, done))]

TypeOK ==
    /\ pc \in {"input", "digested", "annotated", "aborted", "validated",
              "revalidated"}
    /\ Len(rows) <= MaxRows
    /\ altered \subseteq 1..Len(rows)
    /\ cfg \in Configurations
    /\ Len(issues) = Len(origin)
    /\ outcome \in {"none", "returned", "OverflowError", "ValueError"}
    /\ hcfg = DefaultHashConfig
    /\ sample = << >> /\ verified = << >>
    /\ DOMAIN summary \subseteq
          {issues[k].severity : k \in 1..Len(issues)}
              \cup {issues[k].code : k \in 1..Len(issues)}

Init ==
    /\ rows = << >>
    /\ altered = {}
    /\ cfg = DefaultConfig
    /\ pc = "input"
    /\ issues = << >>
    /\ origin = << >>
    /\ outcome = "none"
    /\ hcfg = DefaultHashConfig
    /\ sample = << >>
    /\ verified = << >>
    /\ first = [issues |-> << >>, outcome |-> "none"]
    /\ summary = << >>
    /\ tree = << >>
    /\ cmd = NotRun
    /\ use_magic = FALSE

\* the traversal appends the row of one more file; a batch longer than
\* ShortRows holds collected rows only
Collect(p) ==
    /\ pc = "input"
    /\ \/ Len(rows) < ShortRows
       \/ Len(rows) < MaxRows /\ altered = {}
    /\ rows' = Append(rows, collected_row(p))
    /\ UNCHANGED <<altered, cfg, pc, issues, origin, outcome,
                   hcfg, sample, verified, first, summary>>
    /\ UNCHANGED <<tree, cmd, use_magic>>

\* the caller replaces (or removes) one field of a row it has not altered
SetField(i, f, v) ==
    /\ pc = "input"
    /\ Len(rows) <= ShortRows
    /\ i \notin altered
    /\ rows' = [rows EXCEPT ![i][f] = v]
    /\ altered' = altered \cup {i}
    /\ UNCHANGED <<cfg, pc, issues, origin, outcome,
                   hcfg, sample, verified, first, summary>>
    /\ UNCHANGED <<tree, cmd, use_magic>>

\* hashing.py 43-69: one call of add_hashes_to_rows on the rows of the
\* traversal, before the signature stage (main.py 154-157), for the
\* algorithms the caller names
AddHashes(algorithms) ==
    /\ pc = "input"
    /\ altered = {}
    /\ \E res \in {add_hashes_to_rows(rows, algorithms)} :
           /\ rows' = res.rows
           /\ pc' = IF res.exc = "" THEN "digested" ELSE "aborted"
           /\ outcome' = IF res.exc = "" THEN outcome ELSE res.exc
    /\ UNCHANGED <<altered, cfg, issues, origin,
                   hcfg, sample, verified, first, summary>>
    /\ UNCHANGED <<tree, cmd, use_magic>>

\* signature.py 67-115: one call of add_signature_to_rows on the batch,
\* with the caller's prefer_magic, on an installation that has python-magic
\* (_HAS_MAGIC) or has not; use_magic is the condition of signature.py 46.
\* The stage is handed the rows of the traversal, as main.py 147-157 hands
\* them; a batch the caller has altered goes to the validator as it is
AddSignature(prefer_magic, _HAS_MAGIC) ==
    /\ pc \in {"input", "digested"}
    /\ altered = {}
    /\ \E res \in {add_signature_to_rows(rows, prefer_magic, _HAS_MAGIC)} :
           /\ rows' = res.rows
           /\ pc' = IF res.exc = "" THEN "annotated" ELSE "aborted"
           /\ outcome' = IF res.exc = "" THEN outcome ELSE res.exc
    /\ use_magic' = (prefer_magic /\ _HAS_MAGIC)
    /\ UNCHANGED <<altered, cfg, issues, origin,
                   hcfg, sample, verified, first, summary>>
    /\ UNCHANGED <<tree, cmd>>

\* validate.py 32-126: one call of validate_inventory_rows on the batch
\* with the keyword arguments c; the list it returns is counted by
\* summarize_issues (validate.py 211-220)
Validate(c) ==
    /\ pc \in {"input", "digested", "annotated"}
    /\ \E res \in {validate_inventory_rows(rows, c)} :
           /\ issues' = [k \in 1..Len(res.tagged) |-> res.tagged[k].iss]
           /\ origin' = [k \in 1..Len(res.tagged) |-> res.tagged[k].row]
           /\ outcome' = IF res.exc = "" THEN "returned" ELSE res.exc
           /\ summary' = IF res.exc = "" THEN summarize_issues(issues')
                                         ELSE summary
    /\ rows' = batch_after_validate(rows, c)
    /\ cfg' = c
    /\ pc' = "validated"
    /\ UNCHANGED <<altered, hcfg, sample, verified, first>>
    /\ UNCHANGED <<tree, cmd, use_magic>>

\* validate.py 32-126 called once more, in the state the first call left:
\* the batch as that call left it, the same keyword arguments, the same
\* filesystem; first keeps what the pass before it came to
Revalidate ==
    /\ pc = "validated"
    /\ first' = [issues |-> issues, outcome |-> outcome]
    /\ \E res \in {validate_inventory_rows(rows, cfg)} :
           /\ issues' = [k \in 1..Len(res.tagged) |-> res.tagged[k].iss]
           /\ origin' = [k \in 1..Len(res.tagged) |-> res.tagged[k].row]
           /\ outcome' = IF res.exc = "" THEN "returned" ELSE res.exc
           /\ summary' = IF res.exc = "" THEN summarize_issues(issues')
                                         ELSE summary
    /\ rows' = batch_after_validate(rows, cfg)
    /\ pc' = "revalidated"
    /\ UNCHANGED <<altered, cfg, hcfg, sample, verified>>
    /\ UNCHANGED <<tree, cmd, use_magic>>

Next ==
    \/ \E p \in CollectablePaths : Collect(p)
    \/ \E i \in 1..Len(rows), f \in Fields :
          \E v \in FieldValues(f) : SetField(i, f, v)
    \/ \E algorithms \in HashStageAlgorithms : AddHashes(algorithms)
    \/ \E prefer_magic \in BOOLEAN, _HAS_MAGIC \in BOOLEAN :
          AddSignature(prefer_magic, _HAS_MAGIC)
    \/ \E c \in Configurations : Validate(c)

Spec == Init /\ [][Next]_vars

\* the batch validated, and validated again
Rerun == Init /\ [][Next \/ Revalidate]_vars

(***************************************************************************)
(* The sampled hash re-verification of a batch that carries digests.       *)
(***************************************************************************)
VerifyInit ==
    /\ rows = << >>
    /\ altered = {}
    /\ cfg = DefaultConfig
    /\ pc = "hashed"
    /\ issues = << >>
    /\ origin = << >>
    /\ outcome = "none"
    /\ hcfg = DefaultHashConfig
    /\ sample = << >>
    /\ verified = << >>
    /\ first = [issues |-> << >>, outcome |-> "none"]
    /\ summary = << >>
    /\ tree = << >>
    /\ cmd = NotRun
    /\ use_magic = FALSE

\* one more row of the inventory; a batch longer than ShortRows holds
\* inventory rows only
ImportRow(r) ==
    /\ pc = "hashed"
    /\ \/ Len(rows) < ShortRows
       \/ Len(rows) < MaxRows /\ altered = {}
    /\ rows' = Append(rows, r)
    /\ UNCHANGED <<altered, cfg, pc, issues, origin, outcome,
                   hcfg, sample, verified, first, summary>>
    /\ UNCHANGED <<tree, cmd, use_magic>>

\* the caller replaces (or removes) the path or a digest of a row it has
\* not altered
SetDigest(i, f, v) ==
    /\ pc = "hashed"
    /\ Len(rows) <= ShortRows
    /\ i \notin altered
    /\ rows' = [rows EXCEPT ![i][f] = v]
    /\ altered' = altered \cup {i}
    /\ UNCHANGED <<cfg, pc, issues, origin, outcome,
                   hcfg, sample, verified, first, summary>>
    /\ UNCHANGED <<tree, cmd, use_magic>>

\* validate.py 144-157: the samples the call may draw from the batch
samples(rs, hc) ==
    IF hc.available /\ candidates(rs) # << >>
        THEN draw_sample(candidates(rs),
                         sample_count(Len(candidates(rs)), hc))
        ELSE {<< >>}

\* validate.py 129-187: one call of sample_verify_hashes on the batch with
\* the keyword arguments hc, by a caller that holds an inventory with
\* digests; the list it returns is counted by summarize_issues (validate.py
\* 211-220).  cmd_validate, which calls it after the cross checks and only
\* under the condition of main.py 169, is CmdValidate
VerifyHashes(hc) ==
    /\ pc = "hashed"
    /\ \E smp \in samples(rows, hc) :
         \E res \in {sample_verify_hashes(rows, hc, smp)} :
           /\ issues' = [k \in 1..Len(res.tagged) |-> res.tagged[k].iss]
           /\ origin' = [k \in 1..Len(res.tagged) |-> res.tagged[k].row]
           /\ outcome' = IF res.exc = "" THEN "returned" ELSE res.exc
           /\ sample' = smp
           /\ verified' = res.done
           /\ rows' = batch_after_verify(rows, hc, smp, res.done)
           /\ summary' = IF res.exc = "" THEN summarize_issues(issues')
                                         ELSE summary
    /\ hcfg' = hc
    /\ pc' = "verified"
    /\ UNCHANGED <<altered, cfg, first>>
    /\ UNCHANGED <<tree, cmd, use_magic>>

VerifyNext ==
    \/ \E r \in InventoryRows : ImportRow(r)
    \/ \E i \in 1..Len(rows), f \in Fields :
          \E v \in DigestValues(f) : SetDigest(i, f, v)
    \/ \E hc \in HashConfigurations : VerifyHashes(hc)

VerifySpec == VerifyInit /\ [][VerifyNext]_vars

\* either validator called on a batch, then the summary
Program == (Init \/ VerifyInit) /\ [][Next \/ VerifyNext]_vars

(***************************************************************************)
(* The signature stage alone, over an inventory that carries paths.        *)
(***************************************************************************)
\* the paths of the inventory: files whose extension agrees with their
\* content, files where it does not, files without an extension or without
\* a known content type, a deleted file, links, a path that is no path
SignablePaths ==
    {PyStr(PathA), PyStr(PathB), PyStr(PathGone), PyStr(PathDead),
     PyStr(PathLink), PyStr(PathPhoto), PyStr(PathJpe), PyStr(PathPage),
     PyStr(PathScan), PyStr(PathReadme), PyStr(PathEmpty), PyStr(PathBlank),
     PyStr(PathLocked), PyStr(PathNul), PyStr(""), PyNone, ABSENT}

\* signature.py 86-87: a row of which the stage reads the path only
path_row(v) == [f \in Fields |-> IF f = "path" THEN v ELSE ABSENT]

\* one more row of the inventory
AddPathRow(v) ==
    /\ pc = "input"
    /\ Len(rows) < MaxSigned
    /\ rows' = Append(rows, path_row(v))
    /\ UNCHANGED <<altered, cfg, pc, issues, origin, outcome,
                   hcfg, sample, verified, first, summary, tree, cmd,
                   use_magic>>

SigningNext ==
    \/ \E v \in SignablePaths : AddPathRow(v)
    \/ \E prefer_magic \in BOOLEAN, _HAS_MAGIC \in BOOLEAN :
          AddSignature(prefer_magic, _HAS_MAGIC)

Signing == Init /\ [][SigningNext]_vars

(***************************************************************************)
(* The validate command run over a directory.                              *)
(***************************************************************************)
CommandInit ==
    /\ rows = << >>
    /\ altered = {}
    /\ cfg = DefaultConfig
    /\ pc = "listing"
    /\ issues = << >>
    /\ origin = << >>
    /\ outcome = "none"
    /\ hcfg = DefaultHashConfig
    /\ sample = << >>
    /\ verified = << >>
    /\ first = [issues |-> << >>, outcome |-> "none"]
    /\ summary = << >>
    /\ tree = << >>
    /\ cmd = NotRun
    /\ use_magic = FALSE

\* the scanned directory holds one more entry, which os.scandir lists after
\* the others; the command is run on a directory of any content, every
\* entry of TreeEntries included
ListEntry(p) ==
    /\ pc = "listing"
    /\ Len(tree) < MaxTree
    /\ \A k \in 1..Len(tree) : tree[k] # p
    /\ tree' = Append(tree, p)
    /\ UNCHANGED <<rows, altered, cfg, pc, issues, origin, outcome,
                   hcfg, sample, verified, first, summary, cmd,
                   use_magic>>

\* main.py 146-181: the command run with the options a, on an installation
\* that has python-magic (_HAS_MAGIC) or has not.  An exception of a stage
\* ends the command: nothing is written and nothing summarized
CmdValidate(a, _HAS_MAGIC) ==
    /\ pc = "listing"
    /\ \E inv \in {collect_inventory(tree, a.follow_symlinks)} :
       \E h \in {IF a.with_hash
                    THEN add_hashes_to_rows(inv, a.hash_algorithms)
                    ELSE [rows |-> inv, exc |-> ""]} :
       \E s \in {IF h.exc = "" /\ a.with_signature
                    THEN add_signature_to_rows(h.rows, ~a.sig_no_magic,
                                               _HAS_MAGIC)
                    ELSE h} :
       \E v \in {IF s.exc = ""
                    THEN validate_inventory_rows(s.rows, validate_kwargs(a))
                    ELSE [tagged |-> << >>, exc |-> s.exc]} :
       \E called \in {v.exc = "" /\ verifier_called(a, s.rows)} :
       \E smp \in (IF called THEN samples(s.rows, verify_kwargs(a))
                              ELSE {<< >>}) :
       \E w \in {IF called
                    THEN sample_verify_hashes(s.rows, verify_kwargs(a), smp)
                    ELSE [tagged |-> << >>, exc |-> "", done |-> << >>]} :
       \E exc \in {IF v.exc # "" THEN v.exc ELSE w.exc} :
       \E all \in {IF exc = "" THEN aggregate(v.tagged, w.tagged)
                                ELSE << >>} :
          /\ rows' = s.rows
          /\ issues' = [k \in 1..Len(all) |-> all[k].iss]
          /\ origin' = [k \in 1..Len(all) |-> all[k].row]
          /\ outcome' = IF exc = "" THEN "returned" ELSE exc
          /\ sample' = smp
          /\ verified' = w.done
          /\ summary' = IF exc = "" THEN summarize_issues(issues')
                                    ELSE summary
          /\ cmd' = [args |-> a,
                     called |-> called,
                     cross |-> [k \in 1..Len(v.tagged) |-> v.tagged[k].iss],
                     verifier |-> [k \in 1..Len(w.tagged) |->
                                      w.tagged[k].iss],
                     report |-> IF exc = "" THEN write_issues_csv(issues')
                                            ELSE cmd.report]
    /\ cfg' = validate_kwargs(a)
    /\ hcfg' = verify_kwargs(a)
    /\ pc' = "reported"
    /\ use_magic' = (a.with_signature /\ ~a.sig_no_magic /\ _HAS_MAGIC)
    /\ UNCHANGED <<altered, first, tree>>

CommandNext ==
    \/ \E p \in TreeEntries : ListEntry(p)
    \/ \E a \in Arguments, _HAS_MAGIC \in BOOLEAN :
          CmdValidate(a, _HAS_MAGIC)

Command == CommandInit /\ [][CommandNext]_vars

(***************************************************************************)
(* Properties of validate_inventory_rows.                                  *)
(***************************************************************************)
\* the pass has run and left by `return issues`
Returned == pc = "validated" /\ outcome = "returned"

Idx == 1..Len(issues)

\* positions of the issues with one of the codes raised for row i
IssuesFor(i, codes) ==
    {k \in Idx : origin[k] = i /\ issues[k].code \in codes}

\* the path text of row i as the issues carry it
PathText(i) ==
    IF rows[i]["path"] = ABSENT THEN "" ELSE str(rows[i]["path"])

ExistSizeCodes == {"FILE_NOT_FOUND", "SIZE_MISSING", "SIZE_MISMATCH"}
TimestampCodes == {"TS_MISSING", "TS_BAD_TYPE", "TS_OUT_OF_RANGE"}

Range(q) == {q[k] : k \in 1..Len(q)}

\* t occurs in s
Contains(s, t) ==
    \E a \in 1..Len(s) : a + Len(t) - 1 <= Len(s)
                         /\ SubSeq(s, a, a + Len(t) - 1) = t

\* C1: for every batch and configuration the pass terminates by returning an
\* issue list; it never raises.
C1_NeverRaises == pc = "validated" => outcome = "returned"

\* the rule an issue code belongs to, in pipeline order
Stage(code) ==
    CASE code = "MISSING_FIELD" -> 1
      [] code \in ExistSizeCodes -> 2
      [] code \in TimestampCodes -> 3
      [] code = "DUP_PATH" -> 4
      [] code = "EXT_MISMATCH" -> 5

\* the first row whose path text is p
FirstRowWith(p) ==
    CHOOSE i \in 1..Len(rows) :
        PathText(i) = p /\ \A j \in 1..(i - 1) : PathText(j) # p

\* the row an issue is ordered by: the row it was raised for; a DUP_PATH
\* issue by the first row that carries its path
OrderRow(k) ==
    IF issues[k].code = "DUP_PATH" THEN FirstRowWith(issues[k].path)
    ELSE origin[k]

\* C2: in the returned list the issues of the five rules appear in pipeline
\* order (required fields, existence/size, timestamps, duplicates,
\* signature), and within one rule in input record order (DUP_PATH issues
\* in order of first occurrence of their path).
C2_PipelineOrder ==
    Returned =>
        \A k, l \in Idx :
            k < l =>
                \/ Stage(issues[k].code) < Stage(issues[l].code)
                \/ /\ Stage(issues[k].code) = Stage(issues[l].code)
                   /\ OrderRow(k) <= OrderRow(l)

C2_Witness ==
    /\ Returned
    /\ \A g \in 1..5 : \E k \in Idx : Stage(issues[k].code) = g
    /\ \E k, l \in Idx :
          /\ k < l
          /\ issues[k].code = "DUP_PATH" /\ issues[l].code = "DUP_PATH"
    /\ \E k, l \in Idx :
          /\ issues[k].code = "FILE_NOT_FOUND"
          /\ issues[l].code = "SIZE_MISMATCH"
          /\ origin[k] < origin[l]

\* C3: for every row and every configured required field f (the configured
\* fields being distinct), exactly one MISSING_FIELD ERROR issue with
\* field f is raised when f is absent from the row, null or the empty
\* string, and none otherwise; a present value such as 0 is not missing.
C3_MissingFieldPerField ==
    pc = "validated" =>
        \A i \in 1..Len(rows), f \in Fields :
            LET hits == {k \in IssuesFor(i, {"MISSING_FIELD"}) :
                            issues[k].field = f}
                missing == rows[i][f] \in {ABSENT, PyNone, PyStr("")}
            IN  /\ Cardinality(hits) =
                      IF f \in Range(cfg.required_fields) /\ missing
                          THEN 1 ELSE 0
                /\ \A k \in hits : /\ issues[k].severity = "ERROR"
                                   /\ issues[k].path = PathText(i)

C3_Witness ==
    /\ pc = "validated"
    /\ \E i \in 1..Len(rows) :
          /\ Cardinality(IssuesFor(i, {"MISSING_FIELD"})) = 2
          /\ Cardinality({f \in Range(cfg.required_fields) :
                rows[i][f] \in {ABSENT, PyNone, PyStr("")}}) = 2
          /\ \E f \in Range(cfg.required_fields) :
                rows[i][f] \notin {ABSENT, PyNone, PyStr("")}

\* the number of rows whose path text is p
Occurrences(p) == Cardinality({i \in 1..Len(rows) : PathText(i) = p})

\* C4: with duplicate detection enabled every non-empty path that appears
\* m > 1 times yields exactly one DUP_PATH WARN issue whose detail contains
\* m; a path that appears once yields none; with detection disabled there
\* is no DUP_PATH issue at all.
C4_OneDupIssuePerPath ==
    Returned =>
        /\ \A i \in 1..Len(rows) :
              LET p == PathText(i)
                  m == Occurrences(p)
                  hits == {k \in Idx : issues[k].code = "DUP_PATH"
                                       /\ issues[k].path = p}
              IN  /\ Cardinality(hits) =
                        IF cfg.detect_duplicate_paths /\ p # "" /\ m > 1
                            THEN 1 ELSE 0
                  /\ \A k \in hits : /\ issues[k].severity = "WARN"
                                     /\ Contains(issues[k].detail, ToString(m))
        /\ \A k \in Idx :
              issues[k].code = "DUP_PATH" =>
                  \E i \in 1..Len(rows) : PathText(i) = issues[k].path

C4_Witness ==
    /\ Returned
    /\ cfg.detect_duplicate_paths
    /\ \E i \in 1..Len(rows) :
          /\ PathText(i) # ""
          /\ Occurrences(PathText(i)) = 3
          /\ Cardinality({k \in Idx : issues[k].code = "DUP_PATH"
                            /\ issues[k].path = PathText(i)}) = 1
    /\ \E i \in 1..Len(rows) : Occurrences(PathText(i)) = 1

\* the file of row i exists: its path names a regular file, or a link that
\* leads to one
FileExists(i) == DirEntry(followed(PathText(i))).kind = "file"

\* the size of the file of row i, as it is now
LiveSize(i) == DirEntry(followed(PathText(i))).size

\* C5: with the size check enabled, whether or not the existence check is,
\* every row with a non-empty path whose file exists and whose size_bytes
\* is an integer s yields exactly one SIZE_MISMATCH WARN issue with field
\* size_bytes and value str(s) when the live size of the file differs from
\* s, and none when it equals s.
C5_SizeMismatch ==
    Returned /\ cfg.check_size_matches =>
        \A i \in 1..Len(rows) :
            PathText(i) # "" /\ FileExists(i) /\ rows[i]["size_bytes"].t = "int"
            =>
            LET s == rows[i]["size_bytes"].n
                hits == IssuesFor(i, {"SIZE_MISMATCH"})
            IN  /\ Cardinality(hits) = IF LiveSize(i) # s THEN 1 ELSE 0
                /\ \A k \in hits : /\ issues[k].severity = "WARN"
                                   /\ issues[k].field = "size_bytes"
                                   /\ issues[k].value = ToString(s)
                                   /\ issues[k].path = PathText(i)

\* size_bytes is absent or holds no number
SizeNotNumeric(i) ==
    LET v == rows[i]["size_bytes"]
    IN  \/ v \in {ABSENT, PyNone, PyNaN, PyList}
        \/ v.t = "str" /\ ~IsIntText(v.s) /\ ~IsFloatText(v.s)

OneSizeMissing(i) ==
    /\ Cardinality(IssuesFor(i, {"SIZE_MISSING"})) = 1
    /\ \A k \in IssuesFor(i, {"SIZE_MISSING"}) :
          /\ issues[k].severity = "ERROR"
          /\ issues[k].field = "size_bytes"

\* C6: with the size check enabled every row with a non-empty path whose
\* size_bytes is absent or non-numeric yields exactly one SIZE_MISSING
\* ERROR issue with field size_bytes, whether or not its file can be
\* stat'd.
C6_SizeMissingEvenIfNoStat ==
    Returned /\ cfg.check_size_matches =>
        \A i \in 1..Len(rows) :
            PathText(i) # "" /\ SizeNotNumeric(i) => OneSizeMissing(i)

\* the path of row i cannot be stat'd: nothing is there, or a symbolic link
\* whose target is gone
CannotStat(i) ==
    \/ DirEntry(PathText(i)).kind = "none"
    \/ /\ DirEntry(PathText(i)).kind = "symlink"
       /\ DirEntry(DirEntry(PathText(i)).target).kind = "none"

\* C7: with the existence check enabled every row with a non-empty path
\* that cannot be stat'd (deleted, or a broken symbolic link) yields exactly
\* one FILE_NOT_FOUND ERROR issue and no SIZE_MISSING or SIZE_MISMATCH
\* issue; a row with an empty path yields no existence/size issue; with the
\* check disabled there is no FILE_NOT_FOUND issue.
C7_FileNotFound ==
    Returned =>
        /\ \A i \in 1..Len(rows) :
              /\ cfg.check_file_exists /\ PathText(i) # "" /\ CannotStat(i)
                 => /\ Cardinality(IssuesFor(i, {"FILE_NOT_FOUND"})) = 1
                    /\ \A k \in IssuesFor(i, {"FILE_NOT_FOUND"}) :
                          issues[k].severity = "ERROR"
                    /\ IssuesFor(i, {"SIZE_MISSING", "SIZE_MISMATCH"}) = {}
              /\ PathText(i) = "" => IssuesFor(i, ExistSizeCodes) = {}
        /\ ~cfg.check_file_exists =>
              \A k \in Idx : issues[k].code # "FILE_NOT_FOUND"

\* the timestamp fields the pass checks
CheckedTimeFields ==
    {"mtime_epoch", "atime_epoch", "ctime_epoch"}
        \cup (IF cfg.allow_missing_birthtime THEN {} ELSE {"birthtime_epoch"})

\* v holds a number or the text of one
IsNumber(v) ==
    \/ v.t \in {"int", "float", "inf", "bool"}
    \/ v.t = "str" /\ (IsIntText(v.s) \/ IsFloatText(v.s))

\* the number v holds is below the finite float m
Below(v, m) ==
    CASE v.t = "int" -> 10 * v.n < m.tenths
      [] v.t = "float" -> v.tenths < m.tenths
      [] v.t = "bool" -> (IF v.b THEN 10 ELSE 0) < m.tenths
      [] v.t = "inf" -> v.neg
      [] v.t = "str" -> (IF IsIntText(v.s) THEN 10 * IntOfText(v.s)
                         ELSE FloatOfText(v.s)) < m.tenths

\* the timestamp issue the value v of a checked field calls for, "" if none
ExpectedTimestampCode(v, m) ==
    IF v \in {ABSENT, PyNone, PyStr("")} THEN "TS_MISSING"
    ELSE IF ~IsNumber(v) THEN "TS_BAD_TYPE"
    ELSE IF Below(v, m) THEN "TS_OUT_OF_RANGE"
    ELSE ""

TimestampHits(i, f) ==
    {k \in IssuesFor(i, TimestampCodes) : issues[k].field = f}

\* C8: for every row and every checked timestamp field (mtime, atime, ctime,
\* and birthtime only in strict mode) at most one timestamp issue is raised:
\* TS_MISSING if the field is absent, null or empty; otherwise TS_BAD_TYPE
\* if the value is not a number; otherwise TS_OUT_OF_RANGE if it is below
\* the configured minimum; otherwise none.  In non-strict mode
\* birthtime_epoch raises no timestamp issue.
C8_TimestampIssues ==
    Returned =>
        \A i \in 1..Len(rows), f \in Fields :
            LET want == ExpectedTimestampCode(rows[i][f], cfg.epoch_min)
                hits == TimestampHits(i, f)
            IN  IF f \in CheckedTimeFields /\ want # ""
                    THEN /\ Cardinality(hits) = 1
                         /\ \A k \in hits : /\ issues[k].code = want
                                            /\ issues[k].severity = "WARN"
                    ELSE hits = {}

C8_Witness ==
    /\ Returned
    /\ ~cfg.allow_missing_birthtime
    /\ \E i \in 1..Len(rows) :
          /\ rows[i]["birthtime_epoch"] = PyInt(-5)
          /\ \E k \in TimestampHits(i, "birthtime_epoch") :
                issues[k].code = "TS_OUT_OF_RANGE"

OutOfRangeHits(i, f) ==
    {k \in IssuesFor(i, {"TS_OUT_OF_RANGE"}) : issues[k].field = f}

\* the number v holds is zero
IsZero(v) == ~Below(v, PyFloat(0)) /\ Below(v, PyFloat(1))

\* C9 as stated: with the default minimum epoch 0 every checked timestamp
\* field whose numeric value is negative or zero yields exactly one
\* TS_OUT_OF_RANGE WARN issue naming the field, and every strictly positive
\* value yields none.
C9_ZeroAndNegativeOutOfRange ==
    Returned /\ cfg.epoch_min = PyFloat(0) =>
        \A i \in 1..Len(rows), f \in CheckedTimeFields :
            LET v == rows[i][f]
            IN  v # ABSENT /\ IsNumber(v) =>
                    Cardinality(OutOfRangeHits(i, f)) =
                        IF Below(v, PyFloat(0)) \/ IsZero(v) THEN 1 ELSE 0

\* C9 as amended: with the default minimum epoch 0 every checked timestamp
\* field whose numeric value is negative yields exactly one TS_OUT_OF_RANGE
\* WARN issue naming the field; zero and every strictly positive value
\* yield none.
C9_NegativeOutOfRange ==
    Returned /\ cfg.epoch_min = PyFloat(0) =>
        \A i \in 1..Len(rows), f \in CheckedTimeFields :
            LET v == rows[i][f]
            IN  v # ABSENT /\ IsNumber(v) =>
                    /\ Cardinality(OutOfRangeHits(i, f)) =
                          IF Below(v, PyFloat(0)) THEN 1 ELSE 0
                    /\ \A k \in OutOfRangeHits(i, f) :
                          issues[k].severity = "WARN"

C9_Witness ==
    /\ Returned
    /\ cfg = DefaultConfig
    /\ \E i \in 1..Len(rows) :
          /\ rows[i]["mtime_epoch"] = PyInt(-5)
          /\ Cardinality(OutOfRangeHits(i, "mtime_epoch")) = 1

\* C10: every row yields exactly one EXT_MISMATCH INFO issue if it carries
\* the extension-mismatch flag set to true, and none if the flag is false or
\* absent; so every row the signature stage marks as mismatched yields
\* exactly one EXT_MISMATCH issue.
C10_ExtMismatch ==
    Returned =>
        \A i \in 1..Len(rows) :
            LET flag == rows[i]["ext_mismatch"]
                hits == IssuesFor(i, {"EXT_MISMATCH"})
            IN  /\ flag = PyBool(TRUE) =>
                      /\ Cardinality(hits) = 1
                      /\ \A k \in hits : /\ issues[k].severity = "INFO"
                                         /\ issues[k].path = PathText(i)
                /\ flag \in {PyBool(FALSE), ABSENT} => hits = {}

\* a row the signature stage has annotated and marked as mismatched
C10_Witness ==
    /\ Returned
    /\ \E i \in 1..Len(rows) :
          /\ rows[i]["sig_ext"] = PyStr(".pdf")
          /\ rows[i]["ext_on_disk"] = PyStr(".bin")
          /\ rows[i]["ext_mismatch"] = PyBool(TRUE)
          /\ Cardinality(IssuesFor(i, {"EXT_MISMATCH"})) = 1

(***************************************************************************)
(* Properties of sample_verify_hashes.                                     *)
(***************************************************************************)
\* the verifier has run, with its collaborator, and left by `return issues`
Verified == pc = "verified" /\ outcome = "returned" /\ hcfg.available

Algorithms == Range(hcfg.algorithms)

AlgoCodes ==
    {"HASH_EXPECTED_MISSING", "HASH_ACTUAL_MISSING", "HASH_VERIFY_FAIL"}

\* positions of the per-algorithm issues raised for row i and algorithm a
AlgoHits(i, a) == {k \in IssuesFor(i, AlgoCodes) : issues[k].field = a}

\* the collaborator returns digests for row i: every requested algorithm is
\* md5 or sha256 and the file can be read
DigestsReturned(i) ==
    /\ Algorithms \subseteq {"md5", "sha256"}
    /\ readable(PathText(i))

\* the digest row i records for algorithm a is absent or empty
RecordedMissing(i, a) == rows[i][a] \in {ABSENT, PyNone, PyStr("")}

\* the outcome the precedence of the rule calls for, "" for no issue
ExpectedHashCode(i, a) ==
    IF RecordedMissing(i, a) THEN "HASH_EXPECTED_MISSING"
    ELSE IF hexdigest(PathText(i), a) = "" THEN "HASH_ACTUAL_MISSING"
    ELSE IF lower(rows[i][a].s) # lower(hexdigest(PathText(i), a))
        THEN "HASH_VERIFY_FAIL"
    ELSE ""

\* C11: for every verified row for which the collaborator returned digests
\* and every requested algorithm exactly one outcome applies, in this
\* precedence: HASH_EXPECTED_MISSING WARN if the recorded digest is absent
\* or empty; else HASH_ACTUAL_MISSING WARN if the recomputed one is; else
\* one HASH_VERIFY_FAIL ERROR with field = the algorithm if the two differ
\* when compared without regard to letter case; else no issue.
C11_HashOutcomePerAlgorithm ==
    Verified =>
        \A j \in 1..Len(verified) :
            LET i == verified[j]
            IN  DigestsReturned(i) =>
                    \A a \in Algorithms :
                        LET want == ExpectedHashCode(i, a)
                            hits == AlgoHits(i, a)
                        IN  /\ Cardinality(hits) = IF want = "" THEN 0 ELSE 1
                            /\ \A k \in hits :
                                  /\ issues[k].code = want
                                  /\ issues[k].severity =
                                        IF want = "HASH_VERIFY_FAIL"
                                            THEN "ERROR" ELSE "WARN"
                                  /\ issues[k].path = PathText(i)

\* the scenario of a stale md5: one HASH_VERIFY_FAIL naming md5, and the
\* matching sha256 raises nothing
C11_Witness ==
    /\ Verified
    /\ \E j \in 1..Len(verified) :
          LET i == verified[j]
          IN  /\ DigestsReturned(i)
              /\ rows[i]["md5"] = PyStr("deadbeef")
              /\ \E k \in AlgoHits(i, "md5") :
                    /\ issues[k].code = "HASH_VERIFY_FAIL"
                    /\ issues[k].value = "deadbeef"
              /\ "sha256" \in Algorithms /\ AlgoHits(i, "sha256") = {}

\* the collaborator fails on row i with unsupported-algorithm
UnsupportedFor(i) == \E a \in Algorithms : ~hashlib_new_ok(a)

\* the collaborator reports the file of row i unreadable
UnreadableFor(i) ==
    /\ ~UnsupportedFor(i)
    /\ PathText(i) # PathNul
    /\ ~readable(PathText(i))

\* row i has exactly one issue, of this code and severity
OnlyIssue(i, code, severity) ==
    /\ Cardinality({k \in Idx : origin[k] = i}) = 1
    /\ \A k \in Idx : origin[k] = i => /\ issues[k].code = code
                                       /\ issues[k].severity = severity

\* C12: a collaborator fault on one selected row never stops the batch: the
\* call returns, every selected row is verified, a row on which the
\* collaborator fails with unsupported-algorithm has exactly one
\* HASH_VERIFY_ERROR ERROR issue and no other, and a row whose file is
\* unreadable has exactly one HASH_VERIFY_READ_FAIL WARN issue and no other.
C12_FaultNeverStopsBatch ==
    pc = "verified" /\ hcfg.available =>
        /\ outcome = "returned"
        /\ verified = sample
        /\ \A j \in 1..Len(sample) :
              LET i == sample[j]
              IN  /\ UnsupportedFor(i) =>
                        OnlyIssue(i, "HASH_VERIFY_ERROR", "ERROR")
                  /\ UnreadableFor(i) =>
                        OnlyIssue(i, "HASH_VERIFY_READ_FAIL", "WARN")

\* C13: if the hashing collaborator is unavailable the call returns exactly
\* one issue, HASH_VERIFY_SKIPPED with severity INFO and an empty path, for
\* any batch, and verifies no row.
C13_SkippedOnce ==
    pc = "verified" /\ ~hcfg.available =>
        /\ outcome = "returned"
        /\ Len(issues) = 1
        /\ issues[1].code = "HASH_VERIFY_SKIPPED"
        /\ issues[1].severity = "INFO"
        /\ issues[1].path = ""
        /\ sample = << >> /\ verified = << >>

C13_Witness ==
    /\ pc = "verified" /\ ~hcfg.available
    /\ Len(candidates(rows)) >= 3
    /\ Len(issues) = 1 /\ issues[1].code = "HASH_VERIFY_SKIPPED"

\* x hundredths rounded to the nearest integer, a half going to the even one
RoundHundredths(x) ==
    LET q == x \div 100
        r == x % 100
    IN  IF r < 50 THEN q
        ELSE IF r > 50 THEN q + 1
        ELSE IF q % 2 = 0 THEN q ELSE q + 1

\* row i carries a non-empty path
HasPath(i) == rows[i]["path"] \notin {ABSENT, PyNone, PyStr("")}

\* the number of rows with a non-empty path
CandidateCount == Cardinality({i \in 1..Len(rows) : HasPath(i)})

\* C14: with n the number of rows carrying a non-empty path, the target
\* sample count is clamp(round(n * ratio), min, max): the product is rounded
\* to the nearest integer, not truncated; so the call selects that many
\* rows, or all n if there are fewer.
C14_RoundedSampleCount ==
    Verified /\ hcfg.sample_min <= hcfg.sample_max =>
        Len(sample) =
            Min(CandidateCount,
                Min(Max(RoundHundredths(CandidateCount * hcfg.sample_ratio),
                        hcfg.sample_min),
                    hcfg.sample_max))

\* C15: for n candidate rows and non-negative bounds (min_bound above
\* max_bound included) the size k of the selected sample satisfies
\* min(n, min_bound) <= k <= max(min(n, min_bound), min(n, max_bound))
\* and k <= n.
C15_SampleSizeBounds ==
    Verified =>
        LET n == CandidateCount
            k == Len(sample)
        IN  /\ Min(n, hcfg.sample_min) <= k
            /\ k <= Max(Min(n, hcfg.sample_min), Min(n, hcfg.sample_max))
            /\ k <= n

\* q holds no position twice
Distinct(q) == \A a, b \in 1..Len(q) : a # b => q[a] # q[b]

\* C16: if the number n of candidate rows is at most the target count k,
\* every candidate row is verified exactly once; otherwise exactly k rows
\* are verified, all distinct and all candidates; a row with an empty or
\* absent path is never verified.
C16_SampleWithoutReplacement ==
    Verified =>
        LET cands == {i \in 1..Len(rows) : HasPath(i)}
            n == Cardinality(cands)
            k == sample_count(n, hcfg)
        IN  /\ Distinct(verified)
            /\ Range(verified) \subseteq cands
            /\ IF n <= k THEN Range(verified) = cands
                         ELSE Len(verified) = k

\* a sample of two drawn from three candidates, next to a row without path
C16_Witness ==
    /\ Verified
    /\ CandidateCount = 3 /\ Len(rows) = 4
    /\ sample_count(3, hcfg) = 2
    /\ Len(verified) = 2 /\ verified[1] # verified[2]

\* the place of algorithm a among the requested ones
AlgoRank(a) ==
    CHOOSE k \in 1..Len(hcfg.algorithms) : hcfg.algorithms[k] = a

\* C17: the returned issues follow input record order: every issue about a
\* row precedes every issue about a later row, whether the whole set is
\* verified or a sample is drawn; the issues of one row follow the order of
\* the requested algorithms.
C17_RecordOrder ==
    Verified =>
        \A k, l \in Idx :
            k < l =>
                \/ origin[k] < origin[l]
                \/ /\ origin[k] = origin[l]
                   /\ issues[k].code \in AlgoCodes
                   /\ issues[l].code \in AlgoCodes
                   /\ AlgoRank(issues[k].field) < AlgoRank(issues[l].field)

(***************************************************************************)
(* Properties of the issue lists and of summarize_issues.                  *)
(***************************************************************************)
\* either validator has returned its list, which has been summarized
Summarized == pc \in {"validated", "verified"} /\ outcome = "returned"

Severities == {"INFO", "WARN", "ERROR"}

SeveritiesIn == {issues[k].severity : k \in Idx}
CodesIn == {issues[k].code : k \in Idx}

\* the number of issues with severity sv, with code c
WithSeverity(sv) == Cardinality({k \in Idx : issues[k].severity = sv})
WithCode(c) == Cardinality({k \in Idx : issues[k].code = c})

\* the sum of summary over the keys in S
RECURSIVE SumOver(_)
SumOver(S) ==
    IF S = {} THEN 0
    ELSE LET x == CHOOSE x \in S : TRUE
         IN  summary[x] + SumOver(S \ {x})

\* C18: the keys of the summary are exactly the severities and codes that
\* occur in the list; a severity key maps to the number of issues of that
\* severity and a code key to the number of issues with that code, so both
\* the severity counts and the code counts sum to the number of issues; no
\* code is a severity literal.
C18_SummaryCounts ==
    Summarized =>
        /\ DOMAIN summary = SeveritiesIn \cup CodesIn
        /\ SeveritiesIn \subseteq Severities
        /\ CodesIn \cap Severities = {}
        /\ \A sv \in SeveritiesIn : summary[sv] = WithSeverity(sv)
        /\ \A c \in CodesIn : summary[c] = WithCode(c)
        /\ SumOver(SeveritiesIn) = Len(issues)
        /\ SumOver(CodesIn) = Len(issues)

\* a list of 2 ERROR and 3 WARN issues, with more than one code per severity
C18_Witness ==
    /\ Summarized
    /\ DOMAIN summary \cap Severities = {"ERROR", "WARN"}
    /\ summary["ERROR"] = 2 /\ summary["WARN"] = 3
    /\ Cardinality(CodesIn) >= 3

\* the severity fixed for each code
SeverityOf(code) ==
    CASE code \in {"MISSING_FIELD", "FILE_NOT_FOUND", "SIZE_MISSING",
                   "HASH_VERIFY_ERROR", "HASH_VERIFY_FAIL"} -> "ERROR"
      [] code \in {"SIZE_MISMATCH", "TS_MISSING", "TS_BAD_TYPE",
                   "TS_OUT_OF_RANGE", "DUP_PATH", "HASH_VERIFY_READ_FAIL",
                   "HASH_EXPECTED_MISSING", "HASH_ACTUAL_MISSING"} -> "WARN"
      [] code \in {"EXT_MISMATCH", "HASH_VERIFY_SKIPPED"} -> "INFO"
      [] OTHER -> "no such code"

\* C19: every issue of a list either validator returns has a severity in
\* {INFO, WARN, ERROR} that is a function of its code alone, as tabulated in
\* SeverityOf.
C19_SeverityFixedPerCode ==
    Summarized =>
        \A k \in Idx : /\ issues[k].severity \in Severities
                       /\ issues[k].severity = SeverityOf(issues[k].code)

\* one list with issues of all three severities and a size mismatch
C19_Witness ==
    /\ Summarized
    /\ SeveritiesIn = Severities
    /\ "SIZE_MISMATCH" \in CodesIn
    /\ Cardinality(CodesIn) >= 5

C21_ValidatorsOnlyRead ==
    [][pc' \in {"validated", "verified"} => rows' = rows]_vars

\* a validation pass has reported a required key that a row lacks, and the
\* row still lacks it
C21_Witness ==
    /\ Returned
    /\ \E k \in 1..Len(issues) :
          /\ issues[k].code = "MISSING_FIELD"
          /\ issues[k].field = "size_bytes"
          /\ rows[origin[k]]["size_bytes"] = ABSENT

\* the command has run to its end: the report is written, the summary made
Reported == pc = "reported" /\ outcome = "returned"

\* C22: in the validate command the cross-check rules always run and,
\* whenever --verify-hash is given, sample_verify_hashes is run on the batch
\* (an empty batch leaves it nothing to do) for the requested algorithms;
\* the aggregated list is the cross-check
\* issues followed by the verifier's issues, none dropped, deduplicated or
\* reordered, and that list is what is written and what is summarized
C22_VerifierRunsOnRequest ==
    Reported =>
        /\ cmd.cross = [k \in 1..Len(validate_inventory_rows(rows, cfg).tagged)
                          |-> validate_inventory_rows(rows, cfg).tagged[k].iss]
        /\ (cmd.args.verify_hash /\ rows # << >>) =>
              /\ cmd.called
              /\ hcfg.algorithms = cmd.args.hash_algorithms
        /\ issues = cmd.cross \o cmd.verifier
        /\ Len(cmd.report) = Len(issues)
        /\ \A k \in Idx :
              cmd.report[k] = <<issues[k].severity, issues[k].code,
                                issues[k].path, issues[k].field,
                                issues[k].value, issues[k].detail>>
        /\ summary = summarize_issues(issues)

\* the extension the content of a file of this type stands for
ContentExt(mime) ==
    CASE mime = "text/plain" -> ".txt"
      [] mime = "application/pdf" -> ".pdf"
      [] mime = "image/jpeg" -> ".jpg"
      [] mime = "text/html" -> ".html"
      [] mime = "image/tiff" -> ".tiff"
      [] OTHER -> ""

\* the extension the name of the file of row i stands for
NameExt(i) ==
    CASE PathText(i) \in {PathA, PathLink, PathLocked} -> ".txt"
      [] PathText(i) = PathB -> ".bin"
      [] PathText(i) \in {PathPhoto, PathJpe} -> ".jpg"
      [] PathText(i) = PathPage -> ".html"
      [] PathText(i) = PathScan -> ".tiff"
      [] OTHER -> ""

\* the extension that the signature of the file of row i stands for; ""
\* where there is none: no path, no file to probe, or a type that no
\* extension is known for.  The signature is read from the content where
\* libmagic was asked and answered (a link is then reported as a link),
\* and from the name of the file otherwise
SignatureExt(i) ==
    IF ~HasPath(i) THEN ""
    ELSE IF DirEntry(followed(PathText(i))).kind # "file" THEN ""
    ELSE IF use_magic /\ DirEntry(PathText(i)).kind = "symlink" THEN ""
    ELSE IF use_magic /\ PathText(i) \notin Unreadable
        THEN ContentExt(DirEntry(PathText(i)).mime)
    ELSE NameExt(i)

\* the extension of the path of row i: lower case, with its dot, .jpeg and
\* .jpe read as .jpg, .tif as .tiff, .htm as .html
DiskExt(i) ==
    CASE PathText(i) \in {PathA, PathGone, PathLink, PathLocked} -> ".txt"
      [] PathText(i) = PathB -> ".bin"
      [] PathText(i) = PathDead -> ".lnk"
      [] PathText(i) \in {PathPhoto, PathJpe} -> ".jpg"
      [] PathText(i) = PathPage -> ".html"
      [] PathText(i) = PathScan -> ".tiff"
      [] PathText(i) = PathEmpty -> ".dat"
      [] OTHER -> ""

\* the stage has been called on the batch and has returned or raised
Signed == pc \in {"annotated", "aborted"}

\* C23: add_signature_to_rows sets ext_mismatch to True exactly where the
\* extension the signature stands for is known and differs from the
\* normalized extension on disk, and to False everywhere else: where the
\* signature gives no extension, where the probe fails and where the row
\* has no path
C23_MismatchPolicy ==
    Signed =>
        \A i \in 1..Len(rows) :
            rows[i]["ext_mismatch"] =
                PyBool(SignatureExt(i) # "" /\ DiskExt(i) # SignatureExt(i))

\* the entry at p, and the file it leads to, are now what they were in the
\* scanned directory
UnchangedSince(p) ==
    /\ Scanned(tree, p).kind = DirEntry(p).kind
    /\ Scanned(tree, p).kind = "symlink" =>
          Scanned(tree, p).target = DirEntry(p).target
    /\ Scanned(tree, followed(p)).kind = DirEntry(followed(p)).kind
    /\ DirEntry(followed(p)).kind = "file" =>
          Scanned(tree, followed(p)).size = DirEntry(followed(p)).size

\* C24: validate_inventory_rows with its default configuration, run on the
\* rows collect_inventory returned for a tree that has not changed since,
\* emits no FILE_NOT_FOUND, SIZE_MISSING or SIZE_MISMATCH issue, whether or
\* not links were followed and also where the tree holds links to files
C24_NoStaleIssueOnUnchangedTree ==
    (/\ Reported
     /\ cfg = DefaultConfig
     /\ \A k \in 1..Len(tree) : UnchangedSince(tree[k]))
        => \A k \in Idx : issues[k].code \notin ExistSizeCodes

====
